---- MODULE Spec2Model ----
(***************************************************************************)
(* Material quantity / cost calculation engine (package/models.py,         *)
(* package/calculations.py).                                               *)
(*                                                                         *)
(* Numbers of the program are Python floats (IEEE-754 binary64).  They are *)
(* modelled exactly: a float is a record [s, m, e] denoting s * m * 2^e    *)
(* with a 53-bit mantissa m held as a little-endian sequence of 15-bit     *)
(* limbs, and every arithmetic operation rounds to nearest, ties to even,  *)
(* as the hardware does.                                                   *)
(***************************************************************************)
EXTENDS Integers, Sequences, FiniteSets, TLC

(***************************************************************************)
(* Natural numbers of arbitrary size: little-endian limbs, no leading      *)
(* zero limb, zero is the empty sequence.                                  *)
(***************************************************************************)
LimbBits == 15

Base == 32768

IntSign(n) == IF n > 0 THEN 1 ELSE IF n < 0 THEN -1 ELSE 0

IntAbs(n) == IF n < 0 THEN -n ELSE n

IntMin(a, b) == IF a < b THEN a ELSE b

\* n if n > 0, else 0
IntPos(n) == IF n > 0 THEN n ELSE 0

RECURSIVE BigNorm(_)
BigNorm(a) ==
    IF a = <<>> THEN <<>>
    ELSE IF a[Len(a)] = 0 THEN BigNorm(SubSeq(a, 1, Len(a) - 1))
    ELSE a

RECURSIVE BigOfInt(_)
BigOfInt(n) ==
    IF n = 0 THEN <<>> ELSE <<n % Base>> \o BigOfInt(n \div Base)

RECURSIVE IntOfBig(_)
IntOfBig(a) ==
    IF a = <<>> THEN 0 ELSE a[1] + Base * IntOfBig(Tail(a))

RECURSIVE BigCmpFrom(_, _, _)
BigCmpFrom(a, b, i) ==
    IF i = 0 THEN 0
    ELSE IF a[i] < b[i] THEN -1
    ELSE IF a[i] > b[i] THEN 1
    ELSE BigCmpFrom(a, b, i - 1)

BigCmp(a, b) ==
    IF Len(a) < Len(b) THEN -1
    ELSE IF Len(a) > Len(b) THEN 1
    ELSE BigCmpFrom(a, b, Len(a))

\* the limb i of a, 0 beyond its length
BigLimb(a, i) == IF i <= Len(a) THEN a[i] ELSE 0

RECURSIVE BigAddC(_, _, _, _)
BigAddC(a, b, i, c) ==
    IF i > Len(a) /\ i > Len(b) THEN (IF c = 0 THEN <<>> ELSE <<c>>)
    ELSE <<(BigLimb(a, i) + BigLimb(b, i) + c) % Base>>
         \o BigAddC(a, b, i + 1, (BigLimb(a, i) + BigLimb(b, i) + c) \div Base)

BigAdd(a, b) == BigAddC(a, b, 1, 0)

RECURSIVE BigSubB(_, _, _, _)
BigSubB(a, b, i, c) ==
    IF i > Len(a) THEN <<>>
    ELSE <<(a[i] - BigLimb(b, i) - c) % Base>>
         \o BigSubB(a, b, i + 1, IF a[i] - BigLimb(b, i) - c < 0 THEN 1 ELSE 0)

\* a - b for a >= b
BigSub(a, b) == BigNorm(BigSubB(a, b, 1, 0))

RECURSIVE BigMulSmallC(_, _, _, _)
BigMulSmallC(a, k, i, c) ==
    IF i > Len(a) THEN (IF c = 0 THEN <<>> ELSE <<c>>)
    ELSE <<(a[i] * k + c) % Base>>
         \o BigMulSmallC(a, k, i + 1, (a[i] * k + c) \div Base)

\* a * k for 0 <= k < Base
BigMulSmall(a, k) == IF k = 0 THEN <<>> ELSE BigMulSmallC(a, k, 1, 0)

\* a * Base^n
BigShlLimbs(a, n) == IF a = <<>> THEN <<>> ELSE [i \in 1..n |-> 0] \o a

RECURSIVE BigMulFrom(_, _, _)
BigMulFrom(a, b, i) ==
    IF i > Len(b) THEN <<>>
    ELSE BigAdd(BigMulSmall(a, b[i]), BigShlLimbs(BigMulFrom(a, b, i + 1), 1))

BigMul(a, b) == IF a = <<>> THEN <<>> ELSE BigMulFrom(a, b, 1)

\* a * 2^s
BigShl(a, s) == BigShlLimbs(BigMulSmall(a, 2 ^ (s % LimbBits)), s \div LimbBits)

\* floor(a / 2^k) for 0 <= k < LimbBits
BigShr(a, k) ==
    BigNorm([i \in 1..Len(a) |->
                (a[i] \div (2 ^ k)) + (BigLimb(a, i + 1) % (2 ^ k)) * (2 ^ (LimbBits - k))])

RECURSIVE IntBitLen(_)
IntBitLen(n) == IF n = 0 THEN 0 ELSE 1 + IntBitLen(n \div 2)

BigBitLen(a) ==
    IF a = <<>> THEN 0 ELSE (Len(a) - 1) * LimbBits + IntBitLen(a[Len(a)])

BigIsOdd(a) == a # <<>> /\ a[1] % 2 = 1

\* the largest k < 2^(bit+1) + acc, k >= acc, with d * k <= r
RECURSIVE BigQuotDigit(_, _, _, _)
BigQuotDigit(r, d, bit, acc) ==
    IF bit < 0 THEN acc
    ELSE IF BigCmp(BigMulSmall(d, acc + 2 ^ bit), r) <= 0
    THEN BigQuotDigit(r, d, bit - 1, acc + 2 ^ bit)
    ELSE BigQuotDigit(r, d, bit - 1, acc)

\* the pair <<quotient, remainder>> once the next quotient limb k is known
BigDivLimb(q, r, d, k) == <<BigNorm(<<k>> \o q), BigSub(r, BigMulSmall(d, k))>>

\* one step of the long division of the remainder r, above the quotient q
BigDivStep(q, r, d) == BigDivLimb(q, r, d, BigQuotDigit(r, d, LimbBits - 1, 0))

\* the step that brings down the limb low below the pair qr
BigDivBring(qr, low, d) ==
    IF qr[2] = <<>> /\ low = 0 THEN <<BigShlLimbs(qr[1], 1), (<<>>)>>
    ELSE BigDivStep(qr[1], BigNorm(<<low>> \o qr[2]), d)

\* long division, one limb at a time, of the limbs of n from the limb i up
RECURSIVE BigDivFrom(_, _, _)
BigDivFrom(n, d, i) ==
    IF i > Len(n) THEN <<(<<>>), (<<>>)>>
    ELSE BigDivBring(BigDivFrom(n, d, i + 1), n[i], d)

\* <<floor(n / d), n mod d>> for d > 0
BigDivMod(n, d) == BigDivFrom(n, d, 1)

RECURSIVE BigPow10(_)
BigPow10(p) == IF p = 0 THEN <<1>> ELSE BigMulSmall(BigPow10(p - 1), 10)

\* q or q + 1: q is the floor of a quotient, c the sign of (twice the
\* remainder - the divisor); to the nearest integer, ties to even
BigRoundEven(q, c) ==
    IF c > 0 \/ (c = 0 /\ BigIsOdd(q)) THEN BigAdd(q, <<1>>) ELSE q

BigRoundQuot(qr, d) == BigRoundEven(qr[1], BigCmp(BigAdd(qr[2], qr[2]), d))

\* n / d rounded to the nearest integer, ties to even
BigDivRoundEven(n, d) == BigRoundQuot(BigDivMod(n, d), d)

(***************************************************************************)
(* Python float: binary64, round to nearest even.                          *)
(***************************************************************************)
MantBits == 53

\* bits of a quotient before it is rounded to MantBits bits: at least two more
GuardBits == 55

FZero == [s |-> 0, m |-> <<>>, e |-> 0]

\* the float sgn * m * 2^ex of a mantissa of at most MantBits bits, unless
\* rounding up has carried it to 2^MantBits
RoundCarry(sgn, m, ex) ==
    IF BigBitLen(m) > MantBits
    THEN [s |-> sgn, m |-> BigShl(<<1>>, MantBits - 1), e |-> ex + 1]
    ELSE [s |-> sgn, m |-> m, e |-> ex]

\* hi * 2^k + low + (a fraction, nonzero iff sticky), rounded to a multiple
\* of 2^k: to nearest, ties to even
RoundLow(sgn, hi, low, half, sticky, ex) ==
    RoundCarry(sgn,
               IF low > half \/ (low = half /\ (sticky \/ BigIsOdd(hi)))
               THEN BigAdd(hi, <<1>>) ELSE hi,
               ex)

\* q (of more than MantBits bits) with its k lowest bits rounded away
RoundDrop(sgn, q, k, sticky, ex) ==
    RoundLow(sgn, BigShr(q, k), q[1] % (2 ^ k), 2 ^ (k - 1), sticky, ex + k)

RoundQuot(sgn, qr, ex) ==
    RoundDrop(sgn, qr[1], BigBitLen(qr[1]) - MantBits, qr[2] # <<>>, ex)

\* n / d scaled by 2^sh so that the quotient has GuardBits bits or one more
RoundShift(sgn, n, d, e0, sh) ==
    RoundQuot(sgn, BigDivMod(BigShl(n, IntPos(sh)), BigShl(d, IntPos(-sh))), e0 - sh)

\* the float nearest to sgn * (n / d) * 2^e0, for n >= 0, d > 0
RoundRat(sgn, n, d, e0) ==
    IF n = <<>> THEN FZero
    ELSE RoundShift(sgn, n, d, e0, GuardBits - (BigBitLen(n) - BigBitLen(d)))

\* float(n / d) of a decimal literal n/d, d > 0
FOfRat(n, d) == RoundRat(IntSign(n), BigOfInt(IntAbs(n)), BigOfInt(d), 0)

\* the float sgn * m of an integer of at most MantBits bits: exact
FExact(sgn, m, bits) ==
    [s |-> sgn, m |-> BigShl(m, MantBits - bits), e |-> bits - MantBits]

FOfBig(sgn, m) == IF m = <<>> THEN FZero ELSE FExact(sgn, m, BigBitLen(m))

\* float(n) of an int n
FOfInt(n) == FOfBig(IntSign(n), BigOfInt(IntAbs(n)))

FNeg(x) == [x EXCEPT !.s = -x.s]

FMul(x, y) == RoundRat(x.s * y.s, BigMul(x.m, y.m), <<1>>, x.e + y.e)

\* x / y for y # 0
FDiv(x, y) == RoundRat(x.s * y.s, x.m, y.m, x.e - y.e)

\* the mantissa of x at the exponent e <= x.e
FAlign(x, e) == BigShl(x.m, x.e - e)

\* sign of x - y, exactly
FCmp(x, y) ==
    IF x.s # y.s THEN (IF x.s < y.s THEN -1 ELSE 1)
    ELSE x.s * BigCmp(FAlign(x, IntMin(x.e, y.e)), FAlign(y, IntMin(x.e, y.e)))

FLt(x, y) == FCmp(x, y) < 0

FLe(x, y) == FCmp(x, y) <= 0

\* sa * a + sb * b at the exponent e; c is the sign of a - b
FAddCmp(sa, a, sb, b, e, c) ==
    RoundRat(IF sa = sb \/ c > 0 THEN sa ELSE sb,
             IF sa = sb THEN BigAdd(a, b)
             ELSE IF c >= 0 THEN BigSub(a, b) ELSE BigSub(b, a),
             <<1>>, e)

FAddAligned(sa, a, sb, b, e) == FAddCmp(sa, a, sb, b, e, BigCmp(a, b))

FAddAt(x, y, e) == FAddAligned(x.s, FAlign(x, e), y.s, FAlign(y, e), e)

FAdd(x, y) ==
    IF x.s = 0 THEN y
    ELSE IF y.s = 0 THEN x
    ELSE FAddAt(x, y, IntMin(x.e, y.e))

FSub(x, y) == FAdd(x, FNeg(y))

\* the numerator and the denominator of |x| as a fraction of integers
FNum(x) == BigShl(x.m, IntPos(x.e))

FDen(x) == BigShl(<<1>>, IntPos(-x.e))

\* math.ceil of sgn * (q + r / d), from the pair qr = <<q, r>>
CeilQuot(sgn, q, exact) == IF sgn > 0 /\ ~exact THEN q + 1 ELSE sgn * q

\* math.ceil(x): the least integer >= x
FCeilDiv(sgn, qr) == CeilQuot(sgn, IntOfBig(qr[1]), qr[2] = <<>>)

FCeil(x) == FCeilDiv(x.s, BigDivMod(FNum(x), FDen(x)))

\* int(x): truncation towards zero
FTrunc(x) == x.s * IntOfBig(BigDivMod(FNum(x), FDen(x))[1])

\* round(x, p) with 10^p = pn / pd: the multiple of pd / pn nearest to x,
\* ties of the exact value to even, as a float
PyRoundBy(x, pn, pd) ==
    RoundRat(x.s,
             BigMul(BigDivRoundEven(BigMul(FNum(x), pn), BigMul(FDen(x), pd)), pd),
             pn, 0)

\* round(x, p): x rounded to p decimal digits
PyRound(x, p) ==
    IF x.s = 0 THEN FZero ELSE PyRoundBy(x, BigPow10(IntPos(p)), BigPow10(IntPos(-p)))

(***************************************************************************)
(* models.py: the materials.  A material is a record; a constructor or a   *)
(* setter that raises ValueError is the value Raised.                      *)
(***************************************************************************)
Raised == [error |-> "ValueError"]

None == "None"

\* an argument of calculate that is no instance of Material (materials are
\* passed by their index in the list of materials, from 1)
NotAMaterial == 0

F0 == FOfInt(0)

F1 == FOfInt(1)

F100 == FOfInt(100)

price_per_unit_ok(value) == ~FLe(value, F0)

unit_coverage_ok(value) == ~FLe(value, F0)

roll_width_ok(value) == ~FLe(value, F0) /\ ~FLt(FOfInt(5), value)

roll_length_ok(value) == ~FLe(value, F0) /\ ~FLt(FOfInt(50), value)

tiles_per_box_ok(value) == ~FLe(value, F0) /\ ~FLt(FOfInt(1000), value)

\* faulty variant of tile_width_ok: no upper bound
tile_width_ok_unbounded(value) == ~FLe(value, F0)

tile_width_ok(value) == ~FLe(value, F0) /\ ~FLt(FOfInt(2), value)

tile_height_ok(value) == ~FLe(value, F0) /\ ~FLt(FOfInt(2), value)

planks_per_pack_ok(value) == ~FLe(value, F0) /\ ~FLt(FOfInt(100), value)

plank_width_ok(value) == ~FLe(value, F0) /\ ~FLt(FOfInt(1), value)

plank_length_ok(value) == ~FLe(value, F0) /\ ~FLt(FOfInt(3), value)

\* Material.__init__ on the partly built object self
MaterialInit(self, name, price_per_unit, unit_coverage) ==
    IF ~price_per_unit_ok(price_per_unit) THEN Raised
    ELSE IF ~unit_coverage_ok(unit_coverage) THEN Raised
    ELSE self @@ [name |-> name, price_per_unit |-> price_per_unit,
                  unit_coverage |-> unit_coverage]

WallpaperCoverage(roll_width, roll_length) == FMul(roll_width, roll_length)

Wallpaper(name, price_per_roll, roll_width, roll_length) ==
    IF ~roll_width_ok(roll_width) THEN Raised
    ELSE IF ~roll_length_ok(roll_length) THEN Raised
    ELSE MaterialInit([kind |-> "Wallpaper", roll_width |-> roll_width,
                       roll_length |-> roll_length],
                      name, price_per_roll,
                      WallpaperCoverage(roll_width, roll_length))

TileCoverage(tiles_per_box, tile_width, tile_height) ==
    FMul(FMul(tile_width, tile_height), FOfInt(tiles_per_box))

Tile(name, price_per_box, tiles_per_box, tile_width, tile_height) ==
    IF ~tiles_per_box_ok(tiles_per_box) THEN Raised
    ELSE IF ~tile_width_ok(tile_width) THEN Raised
    ELSE IF ~tile_height_ok(tile_height) THEN Raised
    ELSE MaterialInit([kind |-> "Tile", tiles_per_box |-> FTrunc(tiles_per_box),
                       tile_width |-> tile_width, tile_height |-> tile_height],
                      name, price_per_box,
                      TileCoverage(FTrunc(tiles_per_box), tile_width, tile_height))

LaminateCoverage(planks_per_pack, plank_width, plank_length) ==
    FMul(FMul(plank_width, plank_length), FOfInt(planks_per_pack))

Laminate(name, price_per_pack, planks_per_pack, plank_width, plank_length) ==
    IF ~planks_per_pack_ok(planks_per_pack) THEN Raised
    ELSE IF ~plank_width_ok(plank_width) THEN Raised
    ELSE IF ~plank_length_ok(plank_length) THEN Raised
    ELSE MaterialInit([kind |-> "Laminate",
                       planks_per_pack |-> FTrunc(planks_per_pack),
                       plank_width |-> plank_width, plank_length |-> plank_length],
                      name, price_per_pack,
                      LaminateCoverage(FTrunc(planks_per_pack), plank_width,
                                       plank_length))

\* the coverage formula of the variant applied to the current geometry
DerivedCoverage(m) ==
    IF m.kind = "Wallpaper" THEN WallpaperCoverage(m.roll_width, m.roll_length)
    ELSE IF m.kind = "Tile"
    THEN TileCoverage(m.tiles_per_box, m.tile_width, m.tile_height)
    ELSE LaminateCoverage(m.planks_per_pack, m.plank_width, m.plank_length)

(***************************************************************************)
(* models.py: CalculationResult.  The material is held by reference: its   *)
(* index in the list of materials.                                         *)
(***************************************************************************)
\* faulty variant of CalculationResult: the fields are stored unvalidated
CalculationResult_unvalidated(material, area, units_needed, total_cost, reserve_percent) ==
    [material |-> material, area |-> area, units_needed |-> units_needed,
     total_cost |-> total_cost, reserve_percent |-> reserve_percent]

CalculationResult(material, area, units_needed, total_cost, reserve_percent) ==
    IF FLe(area, F0) THEN Raised
    ELSE IF units_needed <= 0 THEN Raised
    ELSE IF FLt(total_cost, F0) THEN Raised
    ELSE IF FLt(reserve_percent, F0) \/ FLt(F100, reserve_percent) THEN Raised
    ELSE [material |-> material, area |-> area, units_needed |-> units_needed,
          total_cost |-> total_cost, reserve_percent |-> reserve_percent]

(***************************************************************************)
(* State.                                                                  *)
(***************************************************************************)
VARIABLES
    materials,             \* the material objects the caller holds (main.py self.materials)
    reserve_percent,       \* MaterialCalculator._reserve_percent
    min_area,              \* MaterialCalculator._min_area
    max_area,              \* MaterialCalculator._max_area
    precision,             \* MaterialCalculator._precision
    currency,              \* MaterialCalculator._currency
    auto_save,             \* MaterialCalculator._auto_save
    calculations_history,  \* MaterialCalculator._calculations_history
    db_manager,            \* MaterialCalculator._db_manager: None or "db"
    db_up,                 \* whether the store behind db_manager accepts a write now
    db_rows,               \* number of rows of the store's calculations table
    tabulated,             \* the arithmetic of calculate on the inputs of the run
    snapshot,              \* the list a caller got from get_history
    application,           \* main.py self.calculator, beside a RoomCalculator
    console,               \* main.py calculate_room: the prompt it is at and the input so far
    exporter,              \* a BaseExporter: _filename and _allowed_extensions
    last                   \* the most recent call: its arguments, outcome and return value

vars == <<materials, reserve_percent, min_area, max_area, precision, currency, auto_save,
          calculations_history, db_manager, db_up, db_rows, tabulated,
          snapshot, application, console, exporter, last>>

\* the state beside the calculator and the materials
surroundings == <<snapshot, application, console, exporter>>

\* no list was taken from get_history
NoSnapshot == [taken |-> FALSE, live |-> FALSE, list |-> <<>>]

\* no second calculator, no console flow, no exporter
Absent == [none |-> TRUE]

\* a calculator on its own: nothing beside it is in use
Alone ==
    /\ snapshot = NoSnapshot
    /\ application = Absent
    /\ console = Absent
    /\ exporter = Absent

config == <<reserve_percent, min_area, max_area, precision, currency, auto_save, db_manager>>

(***************************************************************************)
(* Bounds and the inputs the callers choose from.                          *)
(***************************************************************************)
MaxHistory == 2

MaxRows == 2

MaxList == 2

\* the materials of the calculator runs: the default roll, the 0.3 x 0.3 tile
\* in boxes of 10, and packs of 17 default planks
Catalog ==
    << Wallpaper("w", FOfInt(1200), FOfRat(53, 100), FOfRat(1005, 100)),
       Tile("t", FOfInt(2500), FOfInt(10), FOfRat(3, 10), FOfRat(3, 10)),
       Laminate("l", FOfInt(1200), FOfInt(17), FOfRat(193, 1000), FOfRat(138, 100)) >>

\* what a caller passes as a material: one of the materials, or something else
MaterialArgs == (DOMAIN materials) \cup {NotAMaterial}

AreaInputs == {FOfInt(-1), FOfInt(0), FOfInt(63), FOfInt(20000)}

CompareAreaInputs == {FOfInt(0), FOfInt(9)}

ReserveInputs == {FOfInt(-1), FOfInt(0), FOfInt(10), FOfInt(101)}

ReserveArgs == {FOfInt(0), FOfInt(10)}

DefaultMaxArea == FOfInt(10000)

DefaultPrecision == 2

\* a value a caller may assign: a text (str) or a value of another type (int)
Text(s) == [type |-> "str", value |-> s]

NotText(s) == [type |-> "int", value |-> s]

\* the constructor's default currency, the rouble sign
DefaultCurrency == Text("RUB")

RECURSIVE SeqsUpTo(_, _)
SeqsUpTo(S, n) ==
    IF n = 0 THEN {<<>>}
    ELSE LET shorter == SeqsUpTo(S, n - 1)
         IN  shorter \cup {Append(q, x) : q \in {t \in shorter : Len(t) = n - 1}, x \in S}

(***************************************************************************)
(* calculations.py: MaterialCalculator.calculate                           *)
(***************************************************************************)
\* faulty variant of UnitsNeeded: the reserve is taken off the area
UnitsNeeded_reserve_deducted(area, reserve, unit_coverage) ==
    LET area_with_reserve == FMul(area, FSub(F1, FDiv(reserve, F100)))
    IN  FCeil(FDiv(area_with_reserve, unit_coverage))

\* lines 189-192: the number of units for an area
UnitsNeeded(area, reserve, unit_coverage) ==
    LET area_with_reserve == FMul(area, FAdd(F1, FDiv(reserve, F100)))
    IN  FCeil(FDiv(area_with_reserve, unit_coverage))

\* faulty variant of TotalCost: the cost is rounded to the default precision,
\* whatever the calculator's precision is
TotalCost_default_precision(units_needed, price_per_unit, digits) ==
    PyRound(FMul(FOfInt(units_needed), price_per_unit), DefaultPrecision)

\* line 195: the cost of the units
TotalCost(units_needed, price_per_unit, digits) ==
    PyRound(FMul(FOfInt(units_needed), price_per_unit), digits)

\* lines 192-195: the units and their cost
UnitsAndCost(units_needed, price_per_unit, digits) ==
    [units_needed |-> units_needed,
     total_cost |-> TotalCost(units_needed, price_per_unit, digits)]

\* lines 189-195 computed once for the areas, the reserves and the materials
\* of a run: the function from <<area, reserve, unit_coverage,
\* price_per_unit, digits>> to the units and their cost.  A run keeps it in
\* the variable tabulated, and calculate reads its arithmetic there.
Tabulate(areas, reserves, list, digits) ==
    [k \in {<<area, reserve, list[i].unit_coverage, list[i].price_per_unit, digits>> :
               area \in areas, reserve \in reserves, i \in DOMAIN list} |->
        UnitsAndCost(UnitsNeeded(k[1], k[2], k[3]), k[4], k[5])]

\* the calculator as a call finds it: the history, the store, the log of the
\* save_calculation calls of this call, the results returned so far
CallStart ==
    [history |-> calculations_history, rows |-> db_rows, saves |-> <<>>,
     ret |-> <<>>, raised |-> FALSE, error |-> None]

\* faulty variant of calculate_append: the result goes to the front
calculate_append_at_front(st, result) == [st EXCEPT !.history = <<result>> \o @]

\* lines 207-208: the result goes to the end of the history
calculate_append(st, result) == [st EXCEPT !.history = Append(@, result)]

\* faulty variant of calculate_persist: no try/except around save_calculation,
\* its exception leaves calculate
calculate_persist_uncaught(st, result) ==
    IF db_manager = None THEN st
    ELSE IF db_up
    THEN [st EXCEPT !.rows = @ + 1,
                    !.saves = Append(@, [result |-> result, history |-> st.history,
                                         ok |-> TRUE])]
    ELSE [st EXCEPT !.saves = Append(@, [result |-> result, history |-> st.history,
                                         ok |-> FALSE]),
                    !.raised = TRUE, !.error = "persistence"]

\* faulty variant of calculate_persist: a save_calculation that raised is
\* called a second time
calculate_persist_retrying(st, result) ==
    IF db_manager = None THEN st
    ELSE IF db_up
    THEN [st EXCEPT !.rows = @ + 1,
                    !.saves = Append(@, [result |-> result, history |-> st.history,
                                         ok |-> TRUE])]
    ELSE [st EXCEPT !.saves = @ \o <<[result |-> result, history |-> st.history,
                                      ok |-> FALSE],
                                     [result |-> result, history |-> st.history,
                                      ok |-> FALSE]>>]

\* lines 210-215: the result goes to the store, if there is one; an exception
\* of save_calculation is caught and printed.  A call of save_calculation is
\* logged with its result, the history of the calculator at the call, and
\* whether the store took it.
calculate_persist(st, result) ==
    IF db_manager = None THEN st
    ELSE IF db_up
    THEN [st EXCEPT !.rows = @ + 1,
                    !.saves = Append(@, [result |-> result, history |-> st.history,
                                         ok |-> TRUE])]
    ELSE [st EXCEPT !.saves = Append(@, [result |-> result, history |-> st.history,
                                         ok |-> FALSE])]

\* faulty variant of calculate_save: the store is written outside the
\* auto_save branch
calculate_save_ungated(st, result) ==
    IF result = Raised THEN [st EXCEPT !.raised = TRUE, !.error = "validation"]
    ELSE IF ~auto_save
    THEN [calculate_persist(st, result) EXCEPT !.ret = Append(@, result)]
    ELSE [calculate_persist(calculate_append(st, result), result)
             EXCEPT !.ret = Append(@, result)]

\* lines 198-217 from the result object on: nothing happens when its
\* constructor raised; history and store are written under auto_save only
calculate_save(st, result) ==
    IF result = Raised THEN [st EXCEPT !.raised = TRUE, !.error = "validation"]
    ELSE IF ~auto_save THEN [st EXCEPT !.ret = Append(@, result)]
    ELSE [calculate_persist(calculate_append(st, result), result)
             EXCEPT !.ret = Append(@, result)]

\* lines 198-204: the result object
calculate_result(st, material, area, computed) ==
    calculate_save(st,
        CalculationResult(material, area, computed.units_needed,
                          computed.total_cost, reserve_percent))

\* faulty variant of calculate_call: the range of the area is checked after
\* the result has been built and saved
calculate_call_checked_late(st, material, area) ==
    IF material = NotAMaterial THEN [st EXCEPT !.raised = TRUE, !.error = "type"]
    ELSE IF FLt(area, min_area) \/ FLt(max_area, area)
    THEN [calculate_result(st, material, area,
              tabulated[<<area, reserve_percent, materials[material].unit_coverage,
                          materials[material].price_per_unit, precision>>])
             EXCEPT !.raised = TRUE, !.error = "range"]
    ELSE calculate_result(st, material, area,
             tabulated[<<area, reserve_percent, materials[material].unit_coverage,
                         materials[material].price_per_unit, precision>>])

\* faulty variant of calculate_call: the bounds themselves are out of range
calculate_call_strict_bounds(st, material, area) ==
    IF FLe(area, min_area) THEN [st EXCEPT !.raised = TRUE, !.error = "range"]
    ELSE IF FLe(max_area, area) THEN [st EXCEPT !.raised = TRUE, !.error = "range"]
    ELSE IF material = NotAMaterial THEN [st EXCEPT !.raised = TRUE, !.error = "type"]
    ELSE calculate_result(st, material, area,
             tabulated[<<area, reserve_percent, materials[material].unit_coverage,
                         materials[material].price_per_unit, precision>>])

\* One call of calculate (lines 180-217) on the calculator st; the
\* configuration is read from the state.  The outcome is st with the result
\* appended to ret, or with raised set when the call raised ValueError.
calculate_call(st, material, area) ==
    IF FLt(area, min_area) THEN [st EXCEPT !.raised = TRUE, !.error = "range"]
    ELSE IF FLt(max_area, area) THEN [st EXCEPT !.raised = TRUE, !.error = "range"]
    ELSE IF material = NotAMaterial THEN [st EXCEPT !.raised = TRUE, !.error = "type"]
    ELSE calculate_result(st, material, area,
             tabulated[<<area, reserve_percent, materials[material].unit_coverage,
                         materials[material].price_per_unit, precision>>])

InBounds(st) == Len(st.history) <= MaxHistory /\ st.rows <= MaxRows

NoCall ==
    [op |-> "init", raised |-> FALSE, error |-> None, value |-> None,
     material |-> None, area |-> None,
     list |-> <<>>, count |-> 0, calls |-> 0, saves |-> <<>>, results |-> <<>>,
     ret |-> <<>>, order |-> <<>>]

calculate_return(st, material, area) ==
    /\ InBounds(st)
    /\ calculations_history' = st.history
    /\ db_rows' = st.rows
    /\ last' = [NoCall EXCEPT !.op = "calculate", !.raised = st.raised,
                              !.error = st.error,
                              !.material = material, !.area = area,
                              !.calls = 1, !.saves = st.saves, !.ret = st.ret,
                              !.results = st.ret]
    /\ UNCHANGED <<materials, tabulated, surroundings, config, db_up>>

calculate(material, area) ==
    calculate_return(calculate_call(CallStart, material, area), material, area)

(***************************************************************************)
(* calculations.py: MaterialCalculator.compare_materials                   *)
(***************************************************************************)
\* lines 246-249: calculate for each material in turn, until one call raises
RECURSIVE compare_loop(_, _, _)
compare_next(st, rest, area) ==
    IF st.raised THEN st ELSE compare_loop(st, rest, area)

compare_loop(st, list, area) ==
    IF list = <<>> THEN st
    ELSE compare_next(calculate_call(st, Head(list), area), Tail(list), area)

\* faulty variant of InsertByCost: a result goes before the results of equal
\* cost, as an unstable sort may put it
RECURSIVE InsertByCost_unstable(_, _, _)
InsertByCost_unstable(order, i, results) ==
    IF order = <<>> THEN <<i>>
    ELSE IF FLe(results[i].total_cost, results[Head(order)].total_cost)
    THEN <<i>> \o order
    ELSE <<Head(order)>> \o InsertByCost_unstable(Tail(order), i, results)

\* line 252, list.sort(key = total_cost): the sorted list as the sequence of
\* the positions the results had before the sort.  The sort is stable: the
\* result at position i goes behind every result that is not costlier.
RECURSIVE InsertByCost(_, _, _)
InsertByCost(order, i, results) ==
    IF order = <<>> THEN <<i>>
    ELSE IF FLt(results[i].total_cost, results[Head(order)].total_cost)
    THEN <<i>> \o order
    ELSE <<Head(order)>> \o InsertByCost(Tail(order), i, results)

RECURSIVE SortOrder(_, _)
SortOrder(results, n) ==
    IF n = 0 THEN <<>>
    ELSE InsertByCost(SortOrder(results, n - 1), n, results)

\* faulty variant of compare_return: the history takes the results in their
\* sorted order
compare_return_sorted_history(st, order, list, area) ==
    /\ InBounds(st)
    /\ calculations_history' =
          IF st.raised \/ ~auto_save THEN st.history
          ELSE calculations_history \o [k \in 1..Len(order) |-> st.ret[order[k]]]
    /\ db_rows' = st.rows
    /\ last' = [NoCall EXCEPT
                  !.op = "compare_materials", !.raised = st.raised,
                  !.error = st.error,
                  !.area = area, !.list = list, !.count = Len(list),
                  !.calls = Len(st.ret) + (IF st.raised THEN 1 ELSE 0),
                  !.saves = st.saves,
                  !.ret = [k \in 1..Len(order) |-> st.ret[order[k]]],
                  !.order = order, !.results = st.ret]
    /\ UNCHANGED <<materials, tabulated, surroundings, config, db_up>>

\* lines 252-254: the results of the calls st, sorted, are returned
compare_return(st, order, list, area) ==
    /\ InBounds(st)
    /\ calculations_history' = st.history
    /\ db_rows' = st.rows
    /\ last' = [NoCall EXCEPT
                  !.op = "compare_materials", !.raised = st.raised,
                  !.error = st.error,
                  !.area = area, !.list = list, !.count = Len(list),
                  !.calls = Len(st.ret) + (IF st.raised THEN 1 ELSE 0),
                  !.saves = st.saves,
                  !.ret = [k \in 1..Len(order) |-> st.ret[order[k]]],
                  !.order = order, !.results = st.ret]
    /\ UNCHANGED <<materials, tabulated, surroundings, config, db_up>>

compare_sort(st, list, area) ==
    compare_return(st,
                   IF st.raised THEN <<>> ELSE SortOrder(st.ret, Len(st.ret)),
                   list, area)

\* faulty variant of compare_materials: an empty list is compared to an empty
\* list of results
compare_materials_empty_ok(list, area) ==
    /\ Len(list) <= MaxList
    /\ IF list = <<>>
       THEN /\ last' = [NoCall EXCEPT !.op = "compare_materials", !.area = area]
            /\ UNCHANGED <<materials, tabulated, surroundings, config, calculations_history,
                           db_up, db_rows>>
       ELSE compare_sort(compare_loop(CallStart, list, area), list, area)

\* compare_materials (lines 232-254)
compare_materials(list, area) ==
    /\ Len(list) <= MaxList
    /\ IF list = <<>>
       THEN /\ last' = [NoCall EXCEPT !.op = "compare_materials", !.raised = TRUE,
                                      !.error = "argument",
                                      !.area = area]
            /\ UNCHANGED <<materials, tabulated, surroundings, config, calculations_history,
                           db_up, db_rows>>
       ELSE compare_sort(compare_loop(CallStart, list, area), list, area)

\* lines 156-159
history_count == Len(calculations_history)

\* sum(...) over a list of results: the costs are added to 0 from the left
RECURSIVE SumCosts(_)
SumCosts(results) ==
    IF results = <<>> THEN F0
    ELSE FAdd(SumCosts(SubSeq(results, 1, Len(results) - 1)),
              results[Len(results)].total_cost)

\* lines 161-164
total_cost_sum == SumCosts(calculations_history)

\* faulty variant of clear_history: the rows of the store are deleted with
\* the history
clear_history_with_store ==
    /\ calculations_history' = <<>>
    /\ db_rows' = 0
    /\ last' = [NoCall EXCEPT !.op = "clear_history"]
    /\ UNCHANGED <<materials, tabulated, surroundings, config, db_up>>

\* lines 228-230
clear_history ==
    /\ calculations_history' = <<>>
    /\ last' = [NoCall EXCEPT !.op = "clear_history"]
    /\ UNCHANGED <<materials, tabulated, surroundings, config, db_up, db_rows>>

(***************************************************************************)
(* calculations.py: the configuration setters                              *)
(***************************************************************************)
\* faulty variant of set_reserve_percent: a value out of range is replaced by
\* the nearest bound
set_reserve_percent_clamping(value) ==
    /\ last' = [NoCall EXCEPT !.op = "reserve_percent", !.value = value]
    /\ reserve_percent' = IF FLt(value, F0) THEN F0
                          ELSE IF FLt(F100, value) THEN F100 ELSE value
    /\ UNCHANGED <<materials, tabulated, surroundings, currency, min_area, max_area, precision, auto_save,
                   calculations_history, db_manager, db_up, db_rows>>

\* faulty variant of set_reserve_percent: the results of the history are
\* brought to the new reserve
set_reserve_percent_restamping(value) ==
    /\ IF FLt(value, F0) \/ FLt(F100, value)
       THEN /\ last' = [NoCall EXCEPT !.op = "reserve_percent", !.raised = TRUE,
                                      !.error = "validation", !.value = value]
            /\ UNCHANGED <<reserve_percent, calculations_history>>
       ELSE /\ last' = [NoCall EXCEPT !.op = "reserve_percent", !.value = value]
            /\ reserve_percent' = value
            /\ calculations_history' =
                  [i \in DOMAIN calculations_history |->
                      [calculations_history[i] EXCEPT !.reserve_percent = value]]
    /\ UNCHANGED <<materials, tabulated, surroundings, currency, min_area, max_area, precision, auto_save,
                   db_manager, db_up, db_rows>>

\* lines 42-55
set_reserve_percent(value) ==
    /\ IF FLt(value, F0) \/ FLt(F100, value)
       THEN /\ last' = [NoCall EXCEPT !.op = "reserve_percent", !.raised = TRUE,
                                      !.error = "validation", !.value = value]
            /\ UNCHANGED reserve_percent
       ELSE /\ last' = [NoCall EXCEPT !.op = "reserve_percent", !.value = value]
            /\ reserve_percent' = value
    /\ UNCHANGED <<materials, tabulated, surroundings, currency, min_area, max_area, precision, auto_save,
                   calculations_history, db_manager, db_up, db_rows>>

\* lines 144-154, for a value that is a bool
set_auto_save(value) ==
    /\ auto_save' = value
    /\ last' = [NoCall EXCEPT !.op = "auto_save"]
    /\ UNCHANGED <<materials, tabulated, surroundings, currency, reserve_percent, min_area, max_area, precision,
                   calculations_history, db_manager, db_up, db_rows>>

(***************************************************************************)
(* database.py: the store behind save_calculation.  A write raises while   *)
(* the database cannot be opened or written (get_connection, lines 100-    *)
(* 110, rolls back and re-raises); the environment decides when.           *)
(***************************************************************************)
db_fails ==
    /\ db_manager # None
    /\ db_up
    /\ db_up' = FALSE
    /\ last' = [NoCall EXCEPT !.op = "db_fails"]
    /\ UNCHANGED <<materials, tabulated, surroundings, config, calculations_history, db_rows>>

db_recovers ==
    /\ db_manager # None
    /\ ~db_up
    /\ db_up' = TRUE
    /\ last' = [NoCall EXCEPT !.op = "db_recovers"]
    /\ UNCHANGED <<materials, tabulated, surroundings, config, calculations_history, db_rows>>

\* lines 62-77
set_min_area(value) ==
    /\ IF FLt(value, F0) \/ FLt(max_area, value)
       THEN /\ last' = [NoCall EXCEPT !.op = "min_area", !.raised = TRUE,
                                 !.error = "validation"]
            /\ UNCHANGED min_area
       ELSE /\ last' = [NoCall EXCEPT !.op = "min_area"]
            /\ min_area' = value
    /\ UNCHANGED <<materials, tabulated, surroundings, currency, reserve_percent, max_area, precision, auto_save,
                   calculations_history, db_manager, db_up, db_rows>>

\* lines 84-97
set_max_area(value) ==
    /\ IF FLt(value, min_area)
       THEN /\ last' = [NoCall EXCEPT !.op = "max_area", !.raised = TRUE,
                                 !.error = "validation"]
            /\ UNCHANGED max_area
       ELSE /\ last' = [NoCall EXCEPT !.op = "max_area"]
            /\ max_area' = value
    /\ UNCHANGED <<materials, tabulated, surroundings, currency, reserve_percent, min_area, precision, auto_save,
                   calculations_history, db_manager, db_up, db_rows>>

\* lines 104-117, for a value that is an int
set_precision(value) ==
    /\ IF value < 0 \/ value > 10
       THEN /\ last' = [NoCall EXCEPT !.op = "precision", !.raised = TRUE,
                                 !.error = "validation"]
            /\ UNCHANGED precision
       ELSE /\ last' = [NoCall EXCEPT !.op = "precision"]
            /\ precision' = value
    /\ UNCHANGED <<materials, tabulated, surroundings, currency, reserve_percent, min_area, max_area, auto_save,
                   calculations_history, db_manager, db_up, db_rows>>

\* lines 124-137
set_currency(value) ==
    /\ IF value.type # "str"
       THEN /\ last' = [NoCall EXCEPT !.op = "currency", !.raised = TRUE,
                                      !.error = "validation", !.value = value]
            /\ UNCHANGED currency
       ELSE /\ last' = [NoCall EXCEPT !.op = "currency", !.value = value]
            /\ currency' = value
    /\ UNCHANGED <<materials, tabulated, surroundings, reserve_percent, min_area, max_area, precision,
                   auto_save, calculations_history, db_manager, db_up, db_rows>>

(***************************************************************************)
(* models.py: the setters of a material, on the material materials[1].     *)
(* A setter validates and stores its own attribute and nothing else.       *)
(***************************************************************************)
calculator_unchanged ==
    UNCHANGED <<config, calculations_history, db_up, db_rows, tabulated, surroundings>>

\* assignment of value to the attribute field of the material: stored when
\* the setter's check ok passes, ValueError and nothing stored otherwise
set_attribute(field, ok, stored) ==
    /\ IF ok
       THEN /\ materials' = [materials EXCEPT ![1] = [@ EXCEPT ![field] = stored]]
            /\ last' = [NoCall EXCEPT !.op = field]
       ELSE /\ UNCHANGED materials
            /\ last' = [NoCall EXCEPT !.op = field, !.raised = TRUE,
                                 !.error = "validation"]
    /\ calculator_unchanged

\* lines 35-48
set_price_per_unit(value) ==
    /\ materials[1].kind \in {"Wallpaper", "Tile", "Laminate"}
    /\ set_attribute("price_per_unit", price_per_unit_ok(value), value)

\* lines 55-68
set_unit_coverage(value) ==
    /\ materials[1].kind \in {"Wallpaper", "Tile", "Laminate"}
    /\ set_attribute("unit_coverage", unit_coverage_ok(value), value)

\* lines 152-159
set_roll_width(value) ==
    /\ materials[1].kind = "Wallpaper"
    /\ set_attribute("roll_width", roll_width_ok(value), value)

\* lines 166-173
set_roll_length(value) ==
    /\ materials[1].kind = "Wallpaper"
    /\ set_attribute("roll_length", roll_length_ok(value), value)

\* lines 231-238
set_tiles_per_box(value) ==
    /\ materials[1].kind = "Tile"
    /\ set_attribute("tiles_per_box", tiles_per_box_ok(value), FTrunc(value))

\* lines 245-252
set_tile_width(value) ==
    /\ materials[1].kind = "Tile"
    /\ set_attribute("tile_width", tile_width_ok(value), value)

\* lines 259-266
set_tile_height(value) ==
    /\ materials[1].kind = "Tile"
    /\ set_attribute("tile_height", tile_height_ok(value), value)

\* lines 326-333
set_planks_per_pack(value) ==
    /\ materials[1].kind = "Laminate"
    /\ set_attribute("planks_per_pack", planks_per_pack_ok(value), FTrunc(value))

\* lines 340-347
set_plank_width(value) ==
    /\ materials[1].kind = "Laminate"
    /\ set_attribute("plank_width", plank_width_ok(value), value)

\* lines 354-361
set_plank_length(value) ==
    /\ materials[1].kind = "Laminate"
    /\ set_attribute("plank_length", plank_length_ok(value), value)

(***************************************************************************)
(* Spec: one calculator as main.py builds it, driven through calculate,    *)
(* clear_history and the setters the calculation flow uses, with a store   *)
(* that may fail.                                                          *)
(***************************************************************************)
Init ==
    /\ materials = SubSeq(Catalog, 1, 2)
    /\ reserve_percent \in ReserveArgs
    /\ min_area = F0
    /\ max_area = DefaultMaxArea
    /\ precision = DefaultPrecision
    /\ currency = DefaultCurrency
    /\ auto_save \in BOOLEAN
    /\ calculations_history = <<>>
    /\ db_manager \in {None, "db"}
    /\ db_up = TRUE
    /\ db_rows = 0
    /\ tabulated = Tabulate(AreaInputs, ReserveArgs, materials, precision)
    /\ Alone
    /\ last = NoCall

Next ==
    \/ \E material \in MaterialArgs, area \in AreaInputs : calculate(material, area)
    \/ clear_history
    \/ \E value \in ReserveInputs : set_reserve_percent(value)
    \/ \E value \in BOOLEAN : set_auto_save(value)
    \/ db_fails
    \/ db_recovers

Spec == Init /\ [][Next]_vars

(***************************************************************************)
(* SpecCompare: one calculator driven through compare_materials.           *)
(***************************************************************************)
InitCompare ==
    /\ materials = SubSeq(Catalog, 1, 2)
    /\ reserve_percent \in ReserveArgs
    /\ min_area = FOfRat(1, 10)
    /\ max_area = DefaultMaxArea
    /\ precision = DefaultPrecision
    /\ currency = DefaultCurrency
    /\ auto_save \in BOOLEAN
    /\ calculations_history = <<>>
    /\ db_manager \in {None, "db"}
    /\ db_up \in BOOLEAN
    /\ db_manager = None => db_up
    /\ db_rows = 0
    /\ tabulated = Tabulate(CompareAreaInputs, ReserveArgs, Catalog, DefaultPrecision)
    /\ Alone
    /\ last = NoCall

NextCompare ==
    \/ \E list \in SeqsUpTo(MaterialArgs, MaxList), area \in CompareAreaInputs :
          compare_materials(list, area)
    \/ clear_history

SpecCompare == InitCompare /\ [][NextCompare]_vars

(***************************************************************************)
(* SpecMaterial: one material object from its construction on, under the   *)
(* assignments a caller can make to its attributes.                        *)
(***************************************************************************)
DimensionInputs == {FOfInt(0), FOfRat(3, 10), FOfInt(1), FOfRat(5, 2), FOfInt(60)}

CountInputs == {FOfInt(0), FOfRat(1, 2), FOfInt(10), FOfInt(2000)}

PriceInputs == {FOfInt(0), FOfInt(100)}

CoverageInputs == {FOfInt(0), FOfInt(5)}

\* the objects the constructors build from valid or invalid arguments
Constructed ==
    ({Wallpaper("w", p, a, b) : p \in PriceInputs, a \in DimensionInputs,
                                b \in DimensionInputs}
     \cup {Tile("t", p, n, a, b) : p \in PriceInputs, n \in CountInputs,
                                   a \in {FOfRat(3, 10)}, b \in DimensionInputs}
     \cup {Laminate("l", p, n, a, b) : p \in PriceInputs, n \in CountInputs,
                                       a \in DimensionInputs, b \in {FOfInt(1)}})
    \ {Raised}

InitMaterial ==
    /\ materials \in {<<m>> : m \in Constructed}
    /\ reserve_percent = FOfInt(10)
    /\ min_area = FOfRat(1, 10)
    /\ max_area = DefaultMaxArea
    /\ precision = DefaultPrecision
    /\ currency = DefaultCurrency
    /\ auto_save = TRUE
    /\ calculations_history = <<>>
    /\ db_manager = None
    /\ db_up = TRUE
    /\ db_rows = 0
    /\ tabulated = <<>>
    /\ Alone
    /\ last = NoCall

NextMaterial ==
    \/ \E value \in PriceInputs : set_price_per_unit(value)
    \/ \E value \in CoverageInputs : set_unit_coverage(value)
    \/ \E value \in DimensionInputs : set_roll_width(value)
    \/ \E value \in DimensionInputs : set_roll_length(value)
    \/ \E value \in CountInputs : set_tiles_per_box(value)
    \/ \E value \in DimensionInputs : set_tile_width(value)
    \/ \E value \in DimensionInputs : set_tile_height(value)
    \/ \E value \in CountInputs : set_planks_per_pack(value)
    \/ \E value \in DimensionInputs : set_plank_width(value)
    \/ \E value \in DimensionInputs : set_plank_length(value)

SpecMaterial == InitMaterial /\ [][NextMaterial]_vars

(***************************************************************************)
(* SpecConfig: one calculator from its construction with arbitrary         *)
(* arguments on, under the configuration setters.                          *)
(***************************************************************************)
ReserveCtorArgs == {FOfInt(-5), FOfInt(0), FOfInt(10), FOfInt(150)}

AreaBoundInputs == {FOfInt(-1), FOfInt(0), FOfRat(1, 10), FOfInt(50), FOfInt(10000)}

PrecisionInputs == {-1, 0, 2, 11}

CurrencyInputs == {Text("USD"), Text(""), NotText("5")}

\* lines 14-35: the constructor stores its arguments as they are
InitConfig ==
    /\ materials = Catalog
    /\ reserve_percent \in ReserveCtorArgs
    /\ min_area \in AreaBoundInputs
    /\ max_area \in AreaBoundInputs
    /\ precision = DefaultPrecision
    /\ currency = DefaultCurrency
    /\ auto_save = TRUE
    /\ calculations_history = <<>>
    /\ db_manager = None
    /\ db_up = TRUE
    /\ db_rows = 0
    /\ tabulated = <<>>
    /\ Alone
    /\ last = NoCall

NextConfig ==
    \/ \E value \in ReserveInputs \cup {F100} : set_reserve_percent(value)
    \/ \E value \in AreaBoundInputs : set_min_area(value)
    \/ \E value \in AreaBoundInputs : set_max_area(value)
    \/ \E value \in PrecisionInputs : set_precision(value)
    \/ \E value \in CurrencyInputs : set_currency(value)
    \/ \E value \in BOOLEAN : set_auto_save(value)

SpecConfig == InitConfig /\ [][NextConfig]_vars

(***************************************************************************)
(* SpecCost: one calculator driven through calculate under changes of its  *)
(* precision, on materials whose prices have digits to round.              *)
(***************************************************************************)
CostCatalog ==
    <<Wallpaper("w", FOfRat(2675, 1000), FOfRat(53, 100), FOfRat(1005, 100)),
      Tile("t", FOfRat(1, 8), FOfInt(10), FOfRat(3, 10), FOfRat(3, 10))>>

CostAreaInputs == {FOfInt(0), FOfRat(1, 2), FOfInt(7)}

PrecisionArgs == {0, 1, 2, 3}

\* Tabulate for each precision of a set
TabulateDigits(areas, reserves, list, digits) ==
    [k \in {<<area, reserve, list[i].unit_coverage, list[i].price_per_unit, d>> :
               area \in areas, reserve \in reserves, i \in DOMAIN list, d \in digits} |->
        UnitsAndCost(UnitsNeeded(k[1], k[2], k[3]), k[4], k[5])]

InitCost ==
    /\ materials = CostCatalog
    /\ reserve_percent = FOfInt(10)
    /\ min_area = F0
    /\ max_area = DefaultMaxArea
    /\ precision = DefaultPrecision
    /\ currency = DefaultCurrency
    /\ auto_save \in BOOLEAN
    /\ calculations_history = <<>>
    /\ db_manager = None
    /\ db_up = TRUE
    /\ db_rows = 0
    /\ tabulated = TabulateDigits(CostAreaInputs, {reserve_percent}, materials,
                                  PrecisionArgs)
    /\ Alone
    /\ last = NoCall

NextCost ==
    \/ \E material \in MaterialArgs, area \in CostAreaInputs : calculate(material, area)
    \/ \E value \in PrecisionInputs \cup PrecisionArgs : set_precision(value)
    \/ clear_history

SpecCost == InitCost /\ [][NextCost]_vars

(***************************************************************************)
(* SpecRange: one calculator driven through calculate with areas below,    *)
(* at, between and above its bounds, under changes of the bounds.          *)
(***************************************************************************)
RangeAreaInputs ==
    {FOfInt(0), FOfRat(1, 20), FOfRat(1, 10), FOfInt(63), FOfInt(10000), FOfInt(20000)}

MinAreaArgs == {F0, FOfRat(1, 10)}

MaxAreaArgs == {FOfInt(63), DefaultMaxArea}

InitRange ==
    /\ materials = SubSeq(Catalog, 1, 1)
    /\ reserve_percent = FOfInt(10)
    /\ min_area = FOfRat(1, 10)
    /\ max_area = DefaultMaxArea
    /\ precision = DefaultPrecision
    /\ currency = DefaultCurrency
    /\ auto_save = TRUE
    /\ calculations_history = <<>>
    /\ db_manager = None
    /\ db_up = TRUE
    /\ db_rows = 0
    /\ tabulated = Tabulate(RangeAreaInputs, {reserve_percent}, materials, precision)
    /\ Alone
    /\ last = NoCall

NextRange ==
    \/ \E material \in MaterialArgs, area \in RangeAreaInputs : calculate(material, area)
    \/ \E value \in MinAreaArgs : set_min_area(value)
    \/ \E value \in MaxAreaArgs : set_max_area(value)
    \/ clear_history

SpecRange == InitRange /\ [][NextRange]_vars

(***************************************************************************)
(* SpecConstruct: the constructors of the materials called with valid and  *)
(* invalid arguments; materials holds the object the last call built, and  *)
(* nothing when the call raised.                                           *)
(***************************************************************************)
\* a constructor call: the object it returns, or the ValueError it raises
construct(kind, args, result) ==
    IF result = Raised
    THEN /\ last' = [NoCall EXCEPT !.op = kind, !.raised = TRUE,
                                   !.error = "validation", !.list = args]
         /\ materials' = <<>>
    ELSE /\ last' = [NoCall EXCEPT !.op = kind, !.list = args]
         /\ materials' = <<result>>

construct_Wallpaper(price_per_roll, roll_width, roll_length) ==
    /\ construct("Wallpaper", <<price_per_roll, roll_width, roll_length>>,
                 Wallpaper("w", price_per_roll, roll_width, roll_length))
    /\ calculator_unchanged

construct_Tile(price_per_box, tiles_per_box, tile_width, tile_height) ==
    /\ construct("Tile", <<price_per_box, tiles_per_box, tile_width, tile_height>>,
                 Tile("t", price_per_box, tiles_per_box, tile_width, tile_height))
    /\ calculator_unchanged

construct_Laminate(price_per_pack, planks_per_pack, plank_width, plank_length) ==
    /\ construct("Laminate", <<price_per_pack, planks_per_pack, plank_width, plank_length>>,
                 Laminate("l", price_per_pack, planks_per_pack, plank_width, plank_length))
    /\ calculator_unchanged

InitConstruct ==
    /\ materials = <<>>
    /\ reserve_percent = FOfInt(10)
    /\ min_area = FOfRat(1, 10)
    /\ max_area = DefaultMaxArea
    /\ precision = DefaultPrecision
    /\ currency = DefaultCurrency
    /\ auto_save = TRUE
    /\ calculations_history = <<>>
    /\ db_manager = None
    /\ db_up = TRUE
    /\ db_rows = 0
    /\ tabulated = <<>>
    /\ Alone
    /\ last = NoCall

NextConstruct ==
    \/ \E p \in PriceInputs, a \in DimensionInputs, b \in DimensionInputs :
          construct_Wallpaper(p, a, b)
    \/ \E p \in PriceInputs, n \in CountInputs, a \in DimensionInputs,
          b \in DimensionInputs : construct_Tile(p, n, a, b)
    \/ \E p \in PriceInputs, n \in CountInputs, a \in DimensionInputs,
          b \in DimensionInputs : construct_Laminate(p, n, a, b)

SpecConstruct == InitConstruct /\ [][NextConstruct]_vars

(***************************************************************************)
(* calculations.py: RoomCalculator.  Its MaterialCalculator is the one of  *)
(* the state; surface_type and height are texts and floats, an absent      *)
(* height is None.                                                         *)
(***************************************************************************)
\* lines 358-371
calculate_floor_area(length, width) ==
    IF FLe(length, F0) \/ FLe(width, F0) THEN Raised
    ELSE FMul(length, width)

\* lines 391-397: the openings are taken from the wall, door first
wall_result_area(result_area) == IF FLe(result_area, F0) THEN Raised ELSE result_area

\* lines 373-397
calculate_wall_area(perimeter, height, door_area, window_area) ==
    IF FLe(perimeter, F0) \/ FLe(height, F0) THEN Raised
    ELSE IF FLt(door_area, F0) \/ FLt(window_area, F0) THEN Raised
    ELSE wall_result_area(FSub(FSub(FMul(perimeter, height), door_area), window_area))

\* a caller's call of calculate_wall_area
call_calculate_wall_area(args, result) ==
    /\ last' = IF result = Raised
               THEN [NoCall EXCEPT !.op = "calculate_wall_area", !.raised = TRUE,
                                   !.error = "argument", !.list = args]
               ELSE [NoCall EXCEPT !.op = "calculate_wall_area", !.list = args,
                                   !.value = result]
    /\ UNCHANGED <<materials, tabulated, surroundings, config, calculations_history, db_up, db_rows>>

(***************************************************************************)
(* SpecWall: calculate_wall_area called with valid and invalid arguments.  *)
(***************************************************************************)
PerimeterInputs == {FOfInt(0), FOfRat(1, 10), FOfInt(14)}

HeightInputs == {FOfInt(0), FOfRat(5, 2), FOfInt(3)}

DoorInputs == {FOfInt(-1), FOfInt(0), FOfRat(1, 10), FOfInt(2), FOfInt(35)}

WindowInputs == {FOfInt(-1), FOfInt(0), FOfRat(1, 5), FOfRat(3, 2)}

\* RoomCalculator.__init__, lines 344-346: a MaterialCalculator of defaults
InitWall ==
    /\ materials = Catalog
    /\ reserve_percent = FOfInt(10)
    /\ min_area = FOfRat(1, 10)
    /\ max_area = DefaultMaxArea
    /\ precision = DefaultPrecision
    /\ currency = DefaultCurrency
    /\ auto_save = TRUE
    /\ calculations_history = <<>>
    /\ db_manager = None
    /\ db_up = TRUE
    /\ db_rows = 0
    /\ tabulated = <<>>
    /\ Alone
    /\ last = NoCall

NextWall ==
    \E perimeter \in PerimeterInputs, height \in HeightInputs,
       door_area \in DoorInputs, window_area \in WindowInputs :
        call_calculate_wall_area(
            <<perimeter, height, door_area, window_area>>,
            calculate_wall_area(perimeter, height, door_area, window_area))

SpecWall == InitWall /\ [][NextWall]_vars

(***************************************************************************)
(* calculations.py: RoomCalculator.calculate_materials_for_room and the    *)
(* reserve_percent property of RoomCalculator.                             *)
(***************************************************************************)
\* height=None: no height was passed
NoHeight == [none |-> TRUE]

\* faulty variant of room_area: the perimeter of a wall is length + width
room_area_half_perimeter(length, width, height, door_area, window_area, surface_type) ==
    IF surface_type = "floor" THEN calculate_floor_area(length, width)
    ELSE IF surface_type = "wall"
    THEN IF height = NoHeight THEN Raised
         ELSE calculate_wall_area(FAdd(length, width), height, door_area, window_area)
    ELSE Raised

\* lines 415-424: the area of the surface, or the ValueError raised
room_area(length, width, height, door_area, window_area, surface_type) ==
    IF surface_type = "floor" THEN calculate_floor_area(length, width)
    ELSE IF surface_type = "wall"
    THEN IF height = NoHeight THEN Raised
         ELSE calculate_wall_area(FMul(FOfInt(2), FAdd(length, width)), height,
                                  door_area, window_area)
    ELSE Raised

\* line 426 returned: the outcome st of the call of calculate
room_return(st, material, args, area) ==
    /\ InBounds(st)
    /\ calculations_history' = st.history
    /\ db_rows' = st.rows
    /\ last' = [NoCall EXCEPT !.op = "calculate_materials_for_room",
                              !.raised = st.raised, !.error = st.error,
                              !.material = material, !.area = area, !.list = args,
                              !.calls = 1, !.saves = st.saves, !.ret = st.ret,
                              !.results = st.ret]
    /\ UNCHANGED <<materials, tabulated, config, db_up>>

\* lines 415-426 from the area on: an error of the area leaves the method
\* before calculate is called
room_calculate(material, args, area) ==
    IF area = Raised
    THEN /\ last' = [NoCall EXCEPT !.op = "calculate_materials_for_room",
                                   !.raised = TRUE, !.error = "argument",
                                   !.material = material, !.list = args]
         /\ UNCHANGED <<materials, tabulated, config, calculations_history,
                        db_up, db_rows>>
    ELSE room_return(calculate_call(CallStart, material, area), material, args, area)

\* lines 415-424 computed once for the arguments of a run: the function from
\* <<length, width, height, door_area, window_area, surface_type>> to the
\* area.  A run keeps it in the variable tabulated, next to the arithmetic
\* of calculate.
TabulateRoom(arguments) ==
    [k \in arguments |-> room_area(k[1], k[2], k[3], k[4], k[5], k[6])]

\* lines 399-426
calculate_materials_for_room(material, length, width, height, door_area, window_area, surface_type) ==
    /\ room_calculate(material,
                      <<length, width, height, door_area, window_area, surface_type>>,
                      tabulated[<<length, width, height, door_area, window_area,
                                  surface_type>>])
    /\ UNCHANGED surroundings

\* lines 348-351: the reserve_percent a RoomCalculator shows
RoomCalculator_reserve_percent == reserve_percent

\* faulty variant of RoomCalculator_set_reserve_percent: the value is
\* validated and then kept nowhere
RoomCalculator_set_reserve_percent_dropped(value) ==
    /\ last' = IF FLt(value, F0) \/ FLt(F100, value)
               THEN [NoCall EXCEPT !.op = "reserve_percent", !.raised = TRUE,
                                   !.error = "validation", !.value = value]
               ELSE [NoCall EXCEPT !.op = "reserve_percent", !.value = value]
    /\ UNCHANGED <<materials, tabulated, surroundings, config, calculations_history, db_up, db_rows>>

\* lines 353-356: an assignment to the reserve_percent of a RoomCalculator
RoomCalculator_set_reserve_percent(value) == set_reserve_percent(value)

(***************************************************************************)
(* SpecRoom: one RoomCalculator driven through                             *)
(* calculate_materials_for_room and assignments to its reserve_percent.    *)
(***************************************************************************)
LengthInputs == {FOfInt(0), FOfInt(4)}

WidthInputs == {FOfInt(3)}

RoomHeightInputs == {NoHeight, FOfRat(5, 2)}

RoomDoorInputs == {FOfInt(2)}

RoomWindowInputs == {FOfRat(3, 2), FOfInt(40)}

SurfaceInputs == {"floor", "wall", "ceiling"}

RoomReserveInputs == {FOfInt(-1), FOfInt(10), FOfInt(50), FOfInt(101)}

RoomInputs ==
    LengthInputs \X WidthInputs \X RoomHeightInputs \X RoomDoorInputs
        \X RoomWindowInputs \X SurfaceInputs

\* the areas the calls of a run pass to calculate
RoomAreas(table) == {table[k] : k \in DOMAIN table} \ {Raised}

\* the areas of a run and the arithmetic of calculate for them
TabulateRoomCalls(table) ==
    table @@ Tabulate(RoomAreas(table), {FOfInt(10), FOfInt(50)},
                      SubSeq(Catalog, 1, 1), DefaultPrecision)

\* RoomCalculator.__init__, lines 344-346: a MaterialCalculator of defaults
InitRoom ==
    /\ materials = SubSeq(Catalog, 1, 1)
    /\ reserve_percent = FOfInt(10)
    /\ min_area = FOfRat(1, 10)
    /\ max_area = DefaultMaxArea
    /\ precision = DefaultPrecision
    /\ currency = DefaultCurrency
    /\ auto_save = TRUE
    /\ calculations_history = <<>>
    /\ db_manager = None
    /\ db_up = TRUE
    /\ db_rows = 0
    /\ tabulated = TabulateRoomCalls(TabulateRoom(RoomInputs))
    /\ Alone
    /\ last = NoCall

NextRoom ==
    \/ \E material \in MaterialArgs, l \in LengthInputs, w \in WidthInputs,
          h \in RoomHeightInputs, d \in RoomDoorInputs, n \in RoomWindowInputs,
          s \in SurfaceInputs :
          calculate_materials_for_room(material, l, w, h, d, n, s)
    \/ \E value \in RoomReserveInputs : RoomCalculator_set_reserve_percent(value)

SpecRoom == InitRoom /\ [][NextRoom]_vars

(***************************************************************************)
(* SpecFrame: the calculator of main.py driven through calculate and       *)
(* compare_materials while its reserve, its precision and its auto_save    *)
(* are changed between the calls.                                          *)
(***************************************************************************)
FrameAreaInputs == {FOfInt(4)}

FrameReserveArgs == {FOfInt(10), FOfInt(50)}

FramePrecisionArgs == {0, 2}

InitFrame ==
    /\ materials = SubSeq(CostCatalog, 1, 1)
    /\ reserve_percent = FOfInt(10)
    /\ min_area = FOfRat(1, 10)
    /\ max_area = DefaultMaxArea
    /\ precision = DefaultPrecision
    /\ currency = DefaultCurrency
    /\ auto_save = TRUE
    /\ calculations_history = <<>>
    /\ db_manager = "db"
    /\ db_up = TRUE
    /\ db_rows = 0
    /\ tabulated = TabulateDigits(FrameAreaInputs, FrameReserveArgs, materials,
                                  FramePrecisionArgs)
    /\ Alone
    /\ last = NoCall

NextFrame ==
    \/ \E material \in MaterialArgs, area \in FrameAreaInputs : calculate(material, area)
    \/ \E list \in SeqsUpTo(MaterialArgs, MaxList), area \in FrameAreaInputs :
          compare_materials(list, area)
    \/ \E value \in FrameReserveArgs \cup {FOfInt(101)} : set_reserve_percent(value)
    \/ \E value \in FramePrecisionArgs \cup {11} : set_precision(value)
    \/ \E value \in BOOLEAN : set_auto_save(value)
    \/ clear_history

SpecFrame == InitFrame /\ [][NextFrame]_vars

(***************************************************************************)
(* SpecMonotone: one calculator of fixed precision driven through          *)
(* calculate for areas below, at and above multiples of the coverage,      *)
(* under changes of its reserve.                                           *)
(***************************************************************************)
MonotoneAreaInputs ==
    {FOfRat(9, 10), FOfRat(48, 10), FOfRat(53265, 10000), FOfRat(54, 10)}

MonotoneReserveArgs == {FOfInt(0), FOfInt(10), FOfInt(100)}

InitMonotone ==
    /\ materials = SubSeq(Catalog, 1, 2)
    /\ reserve_percent = FOfInt(10)
    /\ min_area = FOfRat(1, 10)
    /\ max_area = DefaultMaxArea
    /\ precision = DefaultPrecision
    /\ currency = DefaultCurrency
    /\ auto_save = TRUE
    /\ calculations_history = <<>>
    /\ db_manager = None
    /\ db_up = TRUE
    /\ db_rows = 0
    /\ tabulated = Tabulate(MonotoneAreaInputs, MonotoneReserveArgs, materials, precision)
    /\ Alone
    /\ last = NoCall

NextMonotone ==
    \/ \E material \in DOMAIN materials, area \in MonotoneAreaInputs :
          calculate(material, area)
    \/ \E value \in MonotoneReserveArgs : set_reserve_percent(value)
    \/ clear_history

SpecMonotone == InitMonotone /\ [][NextMonotone]_vars

(***************************************************************************)
(* calculations.py: MaterialCalculator.get_history, and what a caller can  *)
(* do to the list it returns.  A Python list is shared by everyone who     *)
(* holds it: snapshot.live tells whether the caller's list is the          *)
(* calculator's own list or a list of its own.                             *)
(***************************************************************************)
\* the elements of the list the caller holds
snapshot_list == IF snapshot.live THEN calculations_history ELSE snapshot.list

\* faulty variant of get_history: the calculator's own list is returned
get_history_live ==
    /\ snapshot' = [taken |-> TRUE, live |-> TRUE, list |-> <<>>]
    /\ last' = [NoCall EXCEPT !.op = "get_history", !.ret = calculations_history]
    /\ UNCHANGED <<materials, tabulated, config, calculations_history, db_up, db_rows,
                   application, console, exporter>>

\* lines 219-226: a copy of the history is returned
get_history ==
    /\ snapshot' = [taken |-> TRUE, live |-> FALSE, list |-> calculations_history]
    /\ last' = [NoCall EXCEPT !.op = "get_history", !.ret = calculations_history]
    /\ UNCHANGED <<materials, tabulated, config, calculations_history, db_up, db_rows,
                   application, console, exporter>>

\* the caller changes the list it holds to written
list_write(op, written) ==
    /\ IF snapshot.live
       THEN calculations_history' = written /\ UNCHANGED snapshot
       ELSE snapshot' = [snapshot EXCEPT !.list = written]
            /\ UNCHANGED calculations_history
    /\ last' = [NoCall EXCEPT !.op = op]
    /\ UNCHANGED <<materials, tabulated, config, db_up, db_rows,
                   application, console, exporter>>

\* the caller appends the first element of its list to the list
list_append ==
    /\ snapshot.taken
    /\ snapshot_list # <<>>
    /\ Len(snapshot_list) < MaxHistory
    /\ list_write("list.append", Append(snapshot_list, Head(snapshot_list)))

\* the caller removes the last element of its list
list_pop ==
    /\ snapshot.taken
    /\ snapshot_list # <<>>
    /\ list_write("list.pop", SubSeq(snapshot_list, 1, Len(snapshot_list) - 1))

\* the caller reverses its list
list_reverse ==
    /\ snapshot.taken
    /\ list_write("list.reverse",
                  [i \in DOMAIN snapshot_list |->
                      snapshot_list[Len(snapshot_list) + 1 - i]])

(***************************************************************************)
(* SpecSnapshot: one calculator driven through calculate, clear_history    *)
(* and get_history, and a caller who changes the lists it gets.            *)
(***************************************************************************)
SnapshotAreaInputs == {FOfInt(4), FOfInt(63)}

InitSnapshot ==
    /\ materials = SubSeq(Catalog, 1, 1)
    /\ reserve_percent = FOfInt(10)
    /\ min_area = FOfRat(1, 10)
    /\ max_area = DefaultMaxArea
    /\ precision = DefaultPrecision
    /\ currency = DefaultCurrency
    /\ auto_save = TRUE
    /\ calculations_history = <<>>
    /\ db_manager = None
    /\ db_up = TRUE
    /\ db_rows = 0
    /\ tabulated = Tabulate(SnapshotAreaInputs, {reserve_percent}, materials, precision)
    /\ snapshot = NoSnapshot
    /\ application = Absent
    /\ console = Absent
    /\ exporter = Absent
    /\ last = NoCall

NextSnapshot ==
    \/ \E material \in DOMAIN materials, area \in SnapshotAreaInputs :
          calculate(material, area)
    \/ clear_history
    \/ get_history
    \/ list_append
    \/ list_pop
    \/ list_reverse

SpecSnapshot == InitSnapshot /\ [][NextSnapshot]_vars

(***************************************************************************)
(* main.py: the application builds a MaterialCalculator with a store and,  *)
(* beside it, a RoomCalculator, which builds a MaterialCalculator of its   *)
(* own.  In SpecApp the calculator of the RoomCalculator is the calculator *)
(* of the state, as in SpecRoom; the calculator of the application is the  *)
(* record application, and db_rows are the rows of the application's       *)
(* store.                                                                  *)
(***************************************************************************)
\* calculations.py lines 14-35: MaterialCalculator() with no argument
MaterialCalculator_defaults ==
    [reserve_percent |-> FOfInt(10), min_area |-> FOfRat(1, 10),
     max_area |-> DefaultMaxArea, precision |-> DefaultPrecision,
     currency |-> DefaultCurrency, auto_save |-> TRUE,
     calculations_history |-> <<>>, db_manager |-> None]

\* faulty variant of RoomCalculator_init: the calculator is built on the
\* store of the application
RoomCalculator_init_with_store == [MaterialCalculator_defaults EXCEPT !.db_manager = "db"]

\* calculations.py lines 344-346: self._material_calculator
RoomCalculator_init == MaterialCalculator_defaults

\* main.py line 36: MaterialCalculator(reserve_percent=10, db_manager=self.db_manager)
Application_init ==
    [MaterialCalculator_defaults EXCEPT !.reserve_percent = FOfInt(10),
                                        !.db_manager = "db"]

\* the outcome of a calculate of the application's calculator
application_return(raised, error, material, area, saves, ret) ==
    last' = [NoCall EXCEPT !.op = "application.calculate", !.raised = raised,
                           !.error = error, !.material = material, !.area = area,
                           !.calls = 1, !.saves = saves, !.ret = ret, !.results = ret]

\* calculations.py lines 198-217 for the application's calculator
application_save(material, area, result) ==
    IF result = Raised
    THEN /\ application_return(TRUE, "validation", material, area, <<>>, <<>>)
         /\ UNCHANGED <<application, db_rows>>
    ELSE IF ~application.auto_save
    THEN /\ application_return(FALSE, None, material, area, <<>>, <<result>>)
         /\ UNCHANGED <<application, db_rows>>
    ELSE /\ application' =
               [application EXCEPT !.calculations_history = Append(@, result)]
         /\ IF application.db_manager = None
            THEN /\ UNCHANGED db_rows
                 /\ application_return(FALSE, None, material, area, <<>>, <<result>>)
            ELSE /\ db_rows' = IF db_up THEN db_rows + 1 ELSE db_rows
                 /\ application_return(FALSE, None, material, area,
                        <<[result |-> result,
                           history |-> Append(application.calculations_history, result),
                           ok |-> db_up]>>,
                        <<result>>)

\* calculations.py lines 166-217 for the application's calculator, called
\* while its history and its store are below their bounds
application_calculate(material, area) ==
    /\ Len(application.calculations_history) < MaxHistory
    /\ db_rows < MaxRows
    /\ IF FLt(area, application.min_area) \/ FLt(application.max_area, area)
       THEN /\ application_return(TRUE, "range", material, area, <<>>, <<>>)
            /\ UNCHANGED <<application, db_rows>>
       ELSE IF material = NotAMaterial
       THEN /\ application_return(TRUE, "type", material, area, <<>>, <<>>)
            /\ UNCHANGED <<application, db_rows>>
       ELSE application_save(material, area,
                CalculationResult(material, area,
                    tabulated[<<area, application.reserve_percent,
                                materials[material].unit_coverage,
                                materials[material].price_per_unit,
                                application.precision>>].units_needed,
                    tabulated[<<area, application.reserve_percent,
                                materials[material].unit_coverage,
                                materials[material].price_per_unit,
                                application.precision>>].total_cost,
                    application.reserve_percent))
    /\ UNCHANGED <<materials, tabulated, config, calculations_history, db_up,
                   snapshot, console, exporter>>

(***************************************************************************)
(* SpecApp: the RoomCalculator and the calculator of the application, each *)
(* driven through its calculations.                                        *)
(***************************************************************************)
ApplicationAreaInputs == {FOfInt(0), FOfInt(12)}

InitApp ==
    /\ materials = SubSeq(Catalog, 1, 1)
    /\ reserve_percent = RoomCalculator_init.reserve_percent
    /\ min_area = RoomCalculator_init.min_area
    /\ max_area = RoomCalculator_init.max_area
    /\ precision = RoomCalculator_init.precision
    /\ currency = RoomCalculator_init.currency
    /\ auto_save = RoomCalculator_init.auto_save
    /\ calculations_history = RoomCalculator_init.calculations_history
    /\ db_manager = RoomCalculator_init.db_manager
    /\ db_up = TRUE
    /\ db_rows = 0
    /\ tabulated = TabulateRoomCalls(TabulateRoom(RoomInputs))
    /\ snapshot = NoSnapshot
    /\ application = Application_init
    /\ console = Absent
    /\ exporter = Absent
    /\ last = NoCall

NextApp ==
    \/ \E material \in MaterialArgs, l \in LengthInputs, w \in WidthInputs,
          h \in RoomHeightInputs \ {NoHeight}, d \in RoomDoorInputs,
          n \in {FOfRat(3, 2)}, s \in {"floor", "wall"} :
          calculate_materials_for_room(material, l, w, h, d, n, s)
    \/ \E value \in RoomReserveInputs : RoomCalculator_set_reserve_percent(value)
    \/ \E material \in MaterialArgs, area \in ApplicationAreaInputs :
          application_calculate(material, area)

SpecApp == InitApp /\ [][NextApp]_vars

(***************************************************************************)
(* main.py: the console flow of calculate_room.  A line the user types is  *)
(* a sequence of characters; console holds the prompt the flow waits at,   *)
(* the answers taken so far, the line typed last, whether that line was    *)
(* answered with an error message, and self.results.                       *)
(***************************************************************************)
DigitChars == {"0", "1", "2", "3", "4", "5", "6", "7", "8", "9"}

DigitValue(c) ==
    CASE c = "0" -> 0 [] c = "1" -> 1 [] c = "2" -> 2 [] c = "3" -> 3 [] c = "4" -> 4
      [] c = "5" -> 5 [] c = "6" -> 6 [] c = "7" -> 7 [] c = "8" -> 8 [] c = "9" -> 9

\* the number a sequence of digits denotes
RECURSIVE DigitsValue(_)
DigitsValue(digits) ==
    IF digits = <<>> THEN 0
    ELSE 10 * DigitsValue(SubSeq(digits, 1, Len(digits) - 1))
            + DigitValue(digits[Len(digits)])

AllDigits(text) == \A i \in DOMAIN text : text[i] \in DigitChars

\* a line without its sign
Unsigned(text) ==
    IF text # <<>> /\ Head(text) \in {"-", "+"} THEN Tail(text) ELSE text

\* the position of the first "." of a line, or 0
RECURSIVE DotAt(_, _)
DotAt(text, i) ==
    IF i > Len(text) THEN 0
    ELSE IF text[i] = "." THEN i
    ELSE DotAt(text, i + 1)

RECURSIVE PowerOfTen(_)
PowerOfTen(n) == IF n = 0 THEN 1 ELSE 10 * PowerOfTen(n - 1)

\* the float of an unsigned decimal: digits before and after the point
DecimalFloat(whole, fraction) ==
    IF ~AllDigits(whole) \/ ~AllDigits(fraction) \/ (whole = <<>> /\ fraction = <<>>)
    THEN Raised
    ELSE FOfRat(DigitsValue(whole \o fraction), PowerOfTen(Len(fraction)))

UnsignedFloat(text, dot) ==
    IF dot = 0 THEN DecimalFloat(text, <<>>)
    ELSE DecimalFloat(SubSeq(text, 1, dot - 1), SubSeq(text, dot + 1, Len(text)))

Signed(text, x) ==
    IF x = Raised THEN Raised
    ELSE IF text # <<>> /\ Head(text) = "-" THEN FNeg(x)
    ELSE x

\* float(value) of a line: a decimal number with an optional sign, or the
\* ValueError of a line that is none
ParseFloat(text) == Signed(text, UnsignedFloat(Unsigned(text), DotAt(Unsigned(text), 1)))

\* int(value) of a line: digits with an optional sign give the integer
\* value, any other line raises ValueError
ParseInt(text) ==
    IF Unsigned(text) = <<>> \/ ~AllDigits(Unsigned(text))
    THEN [raised |-> TRUE, value |-> 0]
    ELSE IF Head(text) = "-"
    THEN [raised |-> FALSE, value |-> -DigitsValue(Unsigned(text))]
    ELSE [raised |-> FALSE, value |-> DigitsValue(Unsigned(text))]

\* calculations.py lines 449-457 on the float of the line, or on the ValueError
positive_number(num) ==
    IF num = Raised THEN Raised
    ELSE IF FLe(num, F0) THEN Raised
    ELSE num

\* calculations.py lines 435-457
validate_positive_number(value) == positive_number(ParseFloat(value))

\* the flow is not running: the menu waits, the local variables are unset
ConsoleMenu(results) ==
    [prompt |-> "menu", material |-> 0, calc_type |-> <<>>,
     length |-> Absent, width |-> Absent, height |-> Absent,
     door_area |-> Absent, window_area |-> Absent,
     typed |-> <<>>, error |-> FALSE, results |-> results]

console_frame ==
    UNCHANGED <<materials, tabulated, config, calculations_history, db_up, db_rows,
                snapshot, application, exporter>>

\* main.py lines 175-183: the menu choice that starts calculate_room, made
\* while the history of the room calculator is below its bound
console_calculate_room ==
    /\ console.prompt = "menu"
    /\ history_count < MaxHistory
    /\ console' = [console EXCEPT !.prompt = IF materials = <<>> THEN "menu"
                                             ELSE "material",
                                  !.typed = <<"6">>, !.error = materials = <<>>]
    /\ last' = [NoCall EXCEPT !.op = "calculate_room"]
    /\ console_frame

\* main.py lines 185-190: the number of the material; int() of a line that
\* is no number raises out of calculate_room, and run prints the error
console_material(text, choice) ==
    /\ console.prompt = "material"
    /\ console' =
          IF choice.raised \/ choice.value - 1 < 0 \/ choice.value - 1 >= Len(materials)
          THEN [ConsoleMenu(console.results) EXCEPT !.typed = text, !.error = TRUE]
          ELSE [console EXCEPT !.prompt = "type", !.material = choice.value,
                               !.typed = text, !.error = FALSE]
    /\ last' = [NoCall EXCEPT !.op = "input", !.list = text]
    /\ console_frame

\* main.py lines 192-195: the type of the calculation, any line
console_type(text) ==
    /\ console.prompt = "type"
    /\ console' = [console EXCEPT !.prompt = "length", !.calc_type = text,
                                  !.typed = text, !.error = FALSE]
    /\ last' = [NoCall EXCEPT !.op = "input", !.list = text]
    /\ console_frame

\* main.py lines 61-76, input_positive_number at the prompt for field: a
\* line that validate_positive_number rejects is answered with the error
\* and the same prompt, another line is the answer and the flow goes on to
\* the prompt next
console_number(field, next, text, num) ==
    /\ console.prompt = field
    /\ console' =
          IF num = Raised
          THEN [console EXCEPT !.typed = text, !.error = TRUE]
          ELSE [console EXCEPT ![field] = num, !.prompt = next,
                               !.typed = text, !.error = FALSE]
    /\ last' = [NoCall EXCEPT !.op = "input", !.list = text,
                              !.error = IF num = Raised THEN "validation" ELSE None]
    /\ console_frame

\* main.py lines 204-215: the call of the room calculator with the answers
\* args; its result goes to self.results, its ValueError to run, which
\* prints it; either way calculate_room is over
console_result(text, args) ==
    /\ room_calculate(console.material, args, tabulated[args])
    /\ console' = [ConsoleMenu(IF last'.raised THEN console.results
                               ELSE Append(console.results, last'.ret[1]))
                     EXCEPT !.typed = text, !.error = last'.raised]
    /\ UNCHANGED <<snapshot, application, exporter>>

\* main.py line 198 for a floor: the width is the last answer
console_floor(text, num) ==
    /\ console.prompt = "width"
    /\ console.calc_type # <<"2">>
    /\ IF num = Raised THEN console_number("width", "width", text, num)
       ELSE console_result(text, <<console.length, num, NoHeight, F0, F0, "floor">>)

\* main.py line 203 for a wall: the area of the windows is the last answer
console_wall(text, num) ==
    /\ console.prompt = "window_area"
    /\ IF num = Raised THEN console_number("window_area", "window_area", text, num)
       ELSE console_result(text, <<console.length, console.width, console.height,
                                   console.door_area, num, "wall">>)

\* one line typed at the prompt the flow waits at
console_input(text) ==
    \/ console_material(text, ParseInt(text))
    \/ console_type(text)
    \/ console_number("length", "width", text, validate_positive_number(text))
    \/ /\ console.calc_type = <<"2">>
       /\ console_number("width", "height", text, validate_positive_number(text))
    \/ console_floor(text, validate_positive_number(text))
    \/ console_number("height", "door_area", text, validate_positive_number(text))
    \/ console_number("door_area", "window_area", text, validate_positive_number(text))
    \/ console_wall(text, validate_positive_number(text))

(***************************************************************************)
(* SpecConsole: a user at the console, going through calculate_room with   *)
(* the room calculator of the application.                                 *)
(***************************************************************************)
ConsoleInputs == {<<"0">>, <<"1">>, <<"2">>, <<"-", "1">>, <<"1", ".", "5">>, <<"x">>}

\* the numbers the prompts accept among the lines of the run
ConsoleNumbers == {validate_positive_number(text) : text \in ConsoleInputs} \ {Raised}

\* the arguments calculate_room can pass to calculate_materials_for_room
ConsoleRoomInputs ==
    {<<l, w, NoHeight, F0, F0, "floor">> : l \in ConsoleNumbers, w \in ConsoleNumbers}
    \cup (ConsoleNumbers \X ConsoleNumbers \X ConsoleNumbers \X ConsoleNumbers
             \X ConsoleNumbers \X {"wall"})

InitConsole ==
    /\ materials = SubSeq(Catalog, 1, 1)
    /\ reserve_percent = RoomCalculator_init.reserve_percent
    /\ min_area = RoomCalculator_init.min_area
    /\ max_area = RoomCalculator_init.max_area
    /\ precision = RoomCalculator_init.precision
    /\ currency = RoomCalculator_init.currency
    /\ auto_save = RoomCalculator_init.auto_save
    /\ calculations_history = RoomCalculator_init.calculations_history
    /\ db_manager = RoomCalculator_init.db_manager
    /\ db_up = TRUE
    /\ db_rows = 0
    /\ tabulated = TabulateRoomCalls(TabulateRoom(ConsoleRoomInputs))
    /\ snapshot = NoSnapshot
    /\ application = Absent
    /\ console = ConsoleMenu(<<>>)
    /\ exporter = Absent
    /\ last = NoCall

NextConsole ==
    \/ console_calculate_room
    \/ \E text \in ConsoleInputs : console_input(text)

SpecConsole == InitConsole /\ [][NextConsole]_vars

(***************************************************************************)
(* The exporters (exporters.py).  A string is the sequence of its          *)
(* characters; exporter holds _filename and _allowed_extensions of the one *)
(* exporter in use, and the class it was made from.                        *)
(***************************************************************************)
UpperLetters == <<"A", "B", "C", "D", "E", "F", "G", "H", "I", "J", "K", "L", "M", "N", "O", "P", "Q", "R", "S", "T", "U", "V", "W", "X", "Y", "Z">>

LowerLetters == <<"a", "b", "c", "d", "e", "f", "g", "h", "i", "j", "k", "l", "m", "n", "o", "p", "q", "r", "s", "t", "u", "v", "w", "x", "y", "z">>

\* str.lower of one character
lower_char(c) ==
    IF \E i \in DOMAIN UpperLetters : UpperLetters[i] = c
    THEN LowerLetters[CHOOSE i \in DOMAIN UpperLetters : UpperLetters[i] = c]
    ELSE c

\* str.lower
lower(text) == [i \in DOMAIN text |-> lower_char(text[i])]

\* str.lstrip('.')
lstrip_dot(text) ==
    IF \A i \in DOMAIN text : text[i] = "." THEN <<>>
    ELSE SubSeq(text, CHOOSE i \in DOMAIN text : text[i] # "." /\ \A j \in 1..(i - 1) : text[j] = ".", Len(text))

\* str.isalnum: not empty, letters and digits only
isalnum(text) ==
    /\ text # <<>>
    /\ \A i \in DOMAIN text :
          \/ text[i] \in DigitChars
          \/ \E k \in DOMAIN LowerLetters : text[i] \in {LowerLetters[k], UpperLetters[k]}

\* str.rfind, counted from 1: 0 when c is not in text
rfind(text, c) ==
    IF \E i \in DOMAIN text : text[i] = c
    THEN CHOOSE i \in DOMAIN text : text[i] = c /\ \A j \in (i + 1)..Len(text) : text[j] # c
    ELSE 0

\* the second component of os.path.splitext: from the last dot of the last
\* path component on, empty when only dots precede that dot
splitext(text) ==
    IF /\ rfind(text, ".") > rfind(text, "/")
       /\ \E k \in (rfind(text, "/") + 1)..(rfind(text, ".") - 1) : text[k] # "."
    THEN SubSeq(text, rfind(text, "."), Len(text))
    ELSE <<>>

\* exporters.py lines 98-99: the extension _validate_extension looks up
extension_of(text) == lower(lstrip_dot(splitext(text)))

\* ext in self._allowed_extensions
allowed(allowed_extensions, ext) ==
    \E i \in DOMAIN allowed_extensions : allowed_extensions[i] = ext

\* exporters.py lines 84-105, _validate_extension: TRUE when it returns,
\* FALSE when it raises ValueError
validate_extension(allowed_extensions, text) ==
    \/ allowed_extensions = <<>>
    \/ allowed(allowed_extensions, extension_of(text))

\* filename=None, and a filename that is a string
NoFilename == [none |-> TRUE, text |-> <<>>]

Filename(text) == [none |-> FALSE, text |-> text]

\* the truth value of a filename: neither None nor the empty string
given(filename) == ~filename.none /\ filename.text # <<>>

DocxExtensions == <<<<"d", "o", "c", "x">>, <<"d", "o", "c">>>>

ExcelExtensions == <<<<"x", "l", "s", "x">>, <<"x", "l", "s">>>>

\* exporters.py line 132: calculation_report_<timestamp>, which holds no dot
GeneratedStem == <<"r", "e", "p", "o", "r", "t", "_", "1">>

\* exporters.py lines 107-132, _generate_filename
generate_filename(allowed_extensions, extension) ==
    GeneratedStem \o <<".">> \o
       (IF allowed_extensions # <<>> /\ ~allowed(allowed_extensions, lower(lstrip_dot(extension)))
        THEN allowed_extensions[1]
        ELSE lower(lstrip_dot(extension)))

exporter_frame ==
    UNCHANGED <<materials, tabulated, config, calculations_history, db_up, db_rows,
                snapshot, application, console>>

exporter_return(op, raised, value) ==
    /\ last' = [NoCall EXCEPT !.op = op, !.raised = raised, !.value = value,
                              !.error = IF raised THEN "validation" ELSE None]
    /\ exporter_frame

\* exporters.py lines 20-35, BaseExporter.__init__: a constructor that
\* raises leaves no exporter
BaseExporter_init(class, filename, allowed_extensions) ==
    /\ exporter' =
          IF given(filename) /\ ~validate_extension(allowed_extensions, filename.text)
          THEN Absent
          ELSE [class |-> class, filename |-> filename,
                allowed_extensions |-> allowed_extensions]
    /\ exporter_return(class, given(filename) /\ ~validate_extension(allowed_extensions, filename.text), filename)

\* exporters.py lines 182-189
DocxExporter_init(filename) ==
    /\ exporter = Absent
    /\ BaseExporter_init("DocxExporter", filename, DocxExtensions)

\* exporters.py lines 291-298
ExcelExporter_init(filename) ==
    /\ exporter = Absent
    /\ BaseExporter_init("ExcelExporter", filename, ExcelExtensions)

\* exporters.py lines 42-56, the filename setter
set_filename(value) ==
    /\ exporter # Absent
    /\ exporter' =
          IF given(value) /\ validate_extension(exporter.allowed_extensions, value.text)
          THEN [exporter EXCEPT !.filename = value]
          ELSE exporter
    /\ exporter_return("filename", ~(given(value) /\ validate_extension(exporter.allowed_extensions, value.text)), value)

\* exporters.py line 76: every element is a string that is alphanumeric
\* after its leading dots
extensions_ok(items) ==
    \A i \in DOMAIN items : items[i].str /\ isalnum(lstrip_dot(items[i].text))

\* exporters.py line 78: [ext.lower().lstrip('.') for ext in value]
normalised(items) == [i \in DOMAIN items |-> lstrip_dot(lower(items[i].text))]

\* exporters.py lines 63-82, the allowed_extensions setter: the new list is
\* stored at line 78, before the current filename is validated against it
set_allowed_extensions(value) ==
    /\ exporter # Absent
    /\ exporter' =
          IF value.list /\ extensions_ok(value.items)
          THEN [exporter EXCEPT !.allowed_extensions = normalised(value.items)]
          ELSE exporter
    /\ exporter_return("allowed_extensions",
                       \/ ~value.list
                       \/ ~extensions_ok(value.items)
                       \/ /\ given(exporter.filename)
                          /\ ~validate_extension(normalised(value.items), exporter.filename.text),
                       value)

\* exporters.py lines 191-210 and 300-319, export of results: an empty list
\* raises, a filename that is not given is generated with the extension of
\* the class
export(empty) ==
    /\ exporter # Absent
    /\ exporter' =
          IF ~empty /\ ~given(exporter.filename)
          THEN [exporter EXCEPT !.filename =
                   Filename(generate_filename(exporter.allowed_extensions,
                                              IF exporter.class = "DocxExporter"
                                              THEN <<"d", "o", "c", "x">>
                                              ELSE <<"x", "l", "s", "x">>))]
          ELSE exporter
    /\ exporter_return("export", empty, exporter'.filename)

\* the exporter goes out of scope, as at the end of main.py export_results
exporter_dropped ==
    /\ exporter # Absent
    /\ exporter' = Absent
    /\ exporter_return("dropped", FALSE, None)

\* a list argument of strings, one that holds a value that is no string, and
\* an argument that is no list
ExtensionList(texts) == [list |-> TRUE, items |-> [i \in DOMAIN texts |-> [str |-> TRUE, text |-> texts[i]]]]

NotStrings == [list |-> TRUE, items |-> <<[str |-> FALSE, text |-> <<>>]>>]

NotAList == [list |-> FALSE, items |-> <<>>]

FilenameArgs ==
    {NoFilename, Filename(<<>>), Filename(<<"a", ".", "d", "o", "c", "x">>),
     Filename(<<"a", ".", "D", "O", "C">>), Filename(<<"b", ".", "x", "l", "s">>),
     Filename(<<"a", ".", "p", "d", "f">>), Filename(<<".", "d", "o", "c">>),
     Filename(<<"a">>)}

ExtensionArgs ==
    {NotAList, NotStrings, ExtensionList(<<>>), ExtensionList(<<<<"-">>>>),
     ExtensionList(<<<<"p", "d", "f">>>>), ExtensionList(<<<<".", "D", "O", "C", "X">>>>),
     ExtensionList(<<<<"d", "o", "c">>, <<"p", "d", "f">>>>)}

InitExporter ==
    /\ materials = <<>>
    /\ reserve_percent = MaterialCalculator_defaults.reserve_percent
    /\ min_area = MaterialCalculator_defaults.min_area
    /\ max_area = MaterialCalculator_defaults.max_area
    /\ precision = MaterialCalculator_defaults.precision
    /\ currency = MaterialCalculator_defaults.currency
    /\ auto_save = MaterialCalculator_defaults.auto_save
    /\ calculations_history = MaterialCalculator_defaults.calculations_history
    /\ db_manager = MaterialCalculator_defaults.db_manager
    /\ db_up = TRUE
    /\ db_rows = 0
    /\ tabulated = <<>>
    /\ Alone
    /\ last = NoCall

NextExporter ==
    \/ \E filename \in FilenameArgs : DocxExporter_init(filename)
    \/ \E filename \in FilenameArgs : ExcelExporter_init(filename)
    \/ \E value \in FilenameArgs : set_filename(value)
    \/ \E value \in ExtensionArgs : set_allowed_extensions(value)
    \/ \E empty \in BOOLEAN : export(empty)
    \/ exporter_dropped

SpecExporter == InitExporter /\ [][NextExporter]_vars

(***************************************************************************)
(* Properties.                                                             *)
(***************************************************************************)
\* ceil(area * (1 + reserve / 100) / unit_coverage) of the numbers the three
\* floats denote, in exact arithmetic: the quotient of two integers
ExactUnits(area, reserve, unit_coverage) ==
    FCeilDiv(1,
        BigDivMod(
            BigMul(BigMul(FNum(area),
                          BigAdd(BigMulSmall(FDen(reserve), 100), FNum(reserve))),
                   FDen(unit_coverage)),
            BigMul(BigMul(FDen(area), BigMulSmall(FDen(reserve), 100)),
                   FNum(unit_coverage))))

\* C1: a successful calculate returns as units_needed the ceiling of
\* area * (1 + reserve_percent / 100) / unit_coverage, for the reserve
\* configured at the call: nothing is added on an exact multiple of the
\* coverage, one unit is added for any excess above a multiple.
C1_UnitsAreTheCeiling ==
    (last.op = "calculate" /\ ~last.raised) =>
        last.ret[1].units_needed =
            ExactUnits(last.area, reserve_percent,
                       materials[last.material].unit_coverage)

\* C2: a calculate call that fails, whatever the reason, leaves the history
\* as it was before the call and calls no save_calculation.
C2_FailedCalculateCommitsNothing ==
    [][(last'.op = "calculate" /\ last'.raised) =>
           /\ calculations_history' = calculations_history
           /\ db_rows' = db_rows
           /\ last'.saves = <<>>]_vars

\* a calculate that failed in the validation of its result, on a calculator
\* with auto_save, a working store and a history of two results
C2_Witness ==
    /\ last.op = "calculate" /\ last.raised
    /\ last.material = 1 /\ last.area = F0
    /\ auto_save /\ db_manager # None /\ db_up
    /\ Len(calculations_history) = 2

\* the result object calculate builds for a material and an area in the
\* current configuration, whatever happens to it afterwards
ResultOf(material, area) ==
    CalculationResult(material, area,
        tabulated[<<area, reserve_percent, materials[material].unit_coverage,
                    materials[material].price_per_unit, precision>>].units_needed,
        tabulated[<<area, reserve_percent, materials[material].unit_coverage,
                    materials[material].price_per_unit, precision>>].total_cost,
        reserve_percent)

\* a call of calculate whose arguments pass every check
ValidCall(material, area) ==
    /\ material # NotAMaterial
    /\ ~FLt(area, min_area) /\ ~FLt(max_area, area)
    /\ ResultOf(material, area) # Raised

\* C3: with auto_save on and a store whose save_calculation fails, calculate
\* does not fail: it returns the result it returns with a working store, and
\* that result is the last entry of the history.
C3_SaveFailureIsSwallowed ==
    (/\ last.op = "calculate" /\ auto_save /\ db_manager # None /\ ~db_up
     /\ ValidCall(last.material, last.area))
    => /\ ~last.raised
       /\ last.ret = <<ResultOf(last.material, last.area)>>
       /\ calculations_history # <<>>
       /\ calculations_history[Len(calculations_history)] = last.ret[1]

\* a calculate whose one save_calculation failed, after an earlier result
C3_Witness ==
    /\ last.op = "calculate" /\ auto_save
    /\ Len(last.saves) = 1 /\ ~last.saves[1].ok
    /\ Len(last.ret) = 1
    /\ Len(calculations_history) = 2

\* C8: without clear_history the history is the sequence of the results of
\* the successful calculate calls made under auto_save, in call order: such a
\* call appends its one result at the end, and no other operation removes,
\* reorders or replaces an entry.
C8_HistoryIsAppendOnly ==
    [][IF last'.op = "clear_history" THEN TRUE
       ELSE IF last'.op = "calculate" /\ ~last'.raised /\ auto_save
       THEN /\ Len(last'.ret) = 1
            /\ calculations_history' = Append(calculations_history, last'.ret[1])
       ELSE calculations_history' = calculations_history]_vars

\* a second successful calculate under auto_save, of another material
C8_Witness ==
    /\ last.op = "calculate" /\ ~last.raised /\ auto_save
    /\ Len(calculations_history) = 2
    /\ calculations_history[1] # calculations_history[2]
    /\ calculations_history[2] = last.ret[1]

\* C9: with auto_save off a successful calculate returns its result, leaves
\* the history as it is and calls no save_calculation, store or no store.
C9_NoAutoSaveNoTrace ==
    [][(last'.op = "calculate" /\ ~last'.raised /\ ~auto_save) =>
           /\ last'.ret = <<ResultOf(last'.material, last'.area)>>
           /\ calculations_history' = calculations_history
           /\ db_rows' = db_rows
           /\ last'.saves = <<>>]_vars

\* a successful calculate with auto_save off, on a calculator with a working
\* store and an earlier result in its history
C9_Witness ==
    /\ last.op = "calculate" /\ ~last.raised /\ ~auto_save
    /\ Len(last.ret) = 1
    /\ db_manager # None /\ db_up
    /\ Len(calculations_history) = 1

\* C4: a compare_materials call that fails commits no partial state: when an
\* element of the list makes calculate fail after earlier elements were
\* calculated, the history after the call is the history before it.
C4_FailedCompareCommitsNothing ==
    [][(last'.op = "compare_materials" /\ last'.raised) =>
           calculations_history' = calculations_history]_vars

\* the sequence seq is a permutation of 1..n
IsPermutation(seq, n) ==
    /\ Len(seq) = n
    /\ \A i \in 1..n : \E k \in 1..n : seq[k] = i

\* C10: for a non-empty list of valid materials and an area in range,
\* compare_materials returns one result per material of the list, sorted
\* ascending by total_cost, results of equal total_cost in the order of
\* their materials in the list.
C10_CompareSortsStably ==
    (/\ last.op = "compare_materials" /\ last.list # <<>>
     /\ \A i \in DOMAIN last.list : ValidCall(last.list[i], last.area))
    => /\ ~last.raised
       /\ Len(last.ret) = Len(last.list)
       /\ \A i \in DOMAIN last.list :
              last.results[i] = ResultOf(last.list[i], last.area)
       /\ IsPermutation(last.order, Len(last.list))
       /\ \A k \in DOMAIN last.ret : last.ret[k] = last.results[last.order[k]]
       /\ \A j, k \in DOMAIN last.ret :
              j < k => /\ FLe(last.ret[j].total_cost, last.ret[k].total_cost)
                       /\ FLe(last.ret[k].total_cost, last.ret[j].total_cost)
                              => last.order[j] < last.order[k]

\* the tile and the wallpaper compared, the costlier tile first in the list
C10_Witness ==
    /\ last.op = "compare_materials" /\ ~last.raised
    /\ last.list = <<2, 1>>
    /\ last.order = <<2, 1>>
    /\ FLt(last.ret[1].total_cost, last.ret[2].total_cost)


(***************************************************************************)
(* Properties of a material under attribute assignments (SpecMaterial).    *)
(***************************************************************************)
GeometryAttributes ==
    {"roll_width", "roll_length", "tiles_per_box", "tile_width", "tile_height",
     "planks_per_pack", "plank_width", "plank_length"}

CoverageIsDerived(m) == m.unit_coverage = DerivedCoverage(m)

\* C5: after construction and after every successful or rejected assignment
\* to a geometric attribute, unit_coverage equals the variant's coverage
\* formula applied to the current geometry: an assignment to a geometric
\* attribute of a material whose coverage is the derived one leaves it the
\* derived one.
C5_CoverageFollowsGeometry ==
    [][(last'.op \in GeometryAttributes /\ CoverageIsDerived(materials[1]))
          => CoverageIsDerived(materials'[1])]_vars

\* C6: unit_coverage is read-only for callers: no assignment a caller can
\* make changes unit_coverage to anything but the value derived from the
\* geometry the material then has.
C6_CoverageIsReadOnly ==
    [][\/ materials'[1].unit_coverage = materials[1].unit_coverage
       \/ CoverageIsDerived(materials'[1])]_vars

(***************************************************************************)
(* Properties of the configuration (SpecConfig).                           *)
(***************************************************************************)
\* C7: in every reachable state of a calculator, right after construction
\* with any arguments included, reserve_percent is in [0, 100], min_area and
\* max_area are not negative and min_area is at most max_area.
C7_ConfigurationIsValid ==
    /\ FLe(F0, reserve_percent) /\ FLe(reserve_percent, F100)
    /\ FLe(F0, min_area)
    /\ FLe(F0, max_area)
    /\ FLe(min_area, max_area)

(***************************************************************************)
(* Properties of the cost (SpecCost).                                      *)
(***************************************************************************)
\* |a - b|
BigDist(a, b) == IF BigCmp(a, b) >= 0 THEN BigSub(a, b) ELSE BigSub(b, a)

\* the integer nearest to cost * scale
DecimalOf(cost, scale) == BigDivRoundEven(BigMul(FNum(cost), scale), FDen(cost))

\* cost is the float of the decimal k / scale, and no multiple of 1 / scale
\* is nearer to x than k / scale: 2 * |k / scale - x| <= 1 / scale
IsRounding(cost, x, k, scale) ==
    /\ cost = RoundRat(1, k, scale, 0)
    /\ BigCmp(BigMulSmall(BigDist(BigMul(k, FDen(x)), BigMul(FNum(x), scale)), 2),
              FDen(x)) <= 0

RoundedTo(cost, x, digits) ==
    IsRounding(cost, x, DecimalOf(cost, BigPow10(digits)), BigPow10(digits))

\* C11: a successful calculate returns as total_cost the product of
\* units_needed and the material's price_per_unit rounded to the number of
\* decimal digits the calculator's precision holds at the call.
C11_CostIsRoundedToPrecision ==
    (last.op = "calculate" /\ ~last.raised) =>
        RoundedTo(last.ret[1].total_cost,
                  FMul(FOfInt(last.ret[1].units_needed),
                       materials[last.material].price_per_unit),
                  precision)

\* one roll at 2.675 costed with the precision changed to 0: 3.0
C11_Witness ==
    /\ last.op = "calculate" /\ ~last.raised
    /\ precision = 0
    /\ last.material = 1
    /\ last.ret[1].units_needed = 1
    /\ last.ret[1].total_cost = FOfInt(3)

(***************************************************************************)
(* Properties of the range check (SpecRange).                              *)
(***************************************************************************)
OutOfRange(area) == FLt(area, min_area) \/ FLt(max_area, area)

\* C12, as stated: calculate fails with a range error exactly when the area
\* is below min_area or above max_area, and a call with a valid material and
\* the area at min_area or at max_area succeeds.
C12_BoundaryAreasAreAccepted ==
    last.op = "calculate" =>
        /\ (last.error = "range") <=> OutOfRange(last.area)
        /\ (last.material # NotAMaterial /\ ~OutOfRange(last.area)
              /\ last.area \in {min_area, max_area})
           => ~last.raised

\* C12, amended: calculate fails with a range error exactly when the area
\* is below min_area or above max_area, and a call with a valid material and
\* a positive area at min_area or at max_area succeeds; the area 0 at a
\* min_area of 0 passes the range check and fails in the validation of the
\* result.
C12_RangeErrorIffOutOfRange ==
    last.op = "calculate" =>
        /\ (last.error = "range") <=> OutOfRange(last.area)
        /\ (last.material # NotAMaterial /\ ~OutOfRange(last.area)
              /\ last.area \in {min_area, max_area})
           => IF FLt(F0, last.area) THEN ~last.raised
              ELSE last.error = "validation"

\* the area 0.1 at the default min_area of 0.1 was accepted
C12_Witness ==
    /\ last.op = "calculate" /\ ~last.raised
    /\ min_area = FOfRat(1, 10)
    /\ last.area = min_area

(***************************************************************************)
(* Properties of the results (Spec).                                       *)
(***************************************************************************)
ValidResult(r) ==
    /\ FLt(F0, r.area)
    /\ r.units_needed \in Nat /\ r.units_needed >= 1
    /\ FLe(F0, r.total_cost)
    /\ FLe(F0, r.reserve_percent) /\ FLe(r.reserve_percent, F100)

\* C13: every result calculate returns and every result in the history has
\* an area > 0, an integer units_needed >= 1, a total_cost >= 0 and a
\* reserve_percent in [0, 100]; the returned result is for the area of the
\* call, and a call whose area is not positive (0 at a min_area of 0) fails
\* and returns no result.
C13_ResultsAreValid ==
    /\ \A i \in DOMAIN calculations_history : ValidResult(calculations_history[i])
    /\ last.op = "calculate" =>
          /\ IF last.raised THEN last.ret = <<>>
             ELSE ValidResult(last.ret[1]) /\ last.ret[1].area = last.area
          /\ ~FLt(F0, last.area) => last.raised

\* calculate for the area 0, which the range check lets through at a
\* min_area of 0, failed in the validation of its result; the history holds
\* an earlier result
C13_Witness ==
    /\ last.op = "calculate" /\ last.raised /\ last.error = "validation"
    /\ last.material # NotAMaterial
    /\ last.area = F0 /\ min_area = F0
    /\ calculations_history # <<>>

(***************************************************************************)
(* Properties of the constructors (SpecConstruct).                         *)
(***************************************************************************)
PositiveUpTo(x, bound) == FLt(F0, x) /\ FLe(x, FOfInt(bound))

\* the arguments of a constructor are all > 0 and within the variant's bounds
ArgsInDomain(kind, args) ==
    /\ FLt(F0, args[1])
    /\ kind = "Wallpaper" => PositiveUpTo(args[2], 5) /\ PositiveUpTo(args[3], 50)
    /\ kind = "Tile" => /\ PositiveUpTo(args[2], 1000)
                        /\ PositiveUpTo(args[3], 2) /\ PositiveUpTo(args[4], 2)
    /\ kind = "Laminate" => /\ PositiveUpTo(args[2], 100)
                            /\ PositiveUpTo(args[3], 1) /\ PositiveUpTo(args[4], 3)

\* the fields of a material all lie in their declared domains
FieldsInDomain(m) ==
    /\ FLt(F0, m.price_per_unit)
    /\ FLt(F0, m.unit_coverage)
    /\ m.kind = "Wallpaper" =>
          PositiveUpTo(m.roll_width, 5) /\ PositiveUpTo(m.roll_length, 50)
    /\ m.kind = "Tile" =>
          /\ m.tiles_per_box \in 1..1000
          /\ PositiveUpTo(m.tile_width, 2) /\ PositiveUpTo(m.tile_height, 2)
    /\ m.kind = "Laminate" =>
          /\ m.planks_per_pack \in 1..100
          /\ PositiveUpTo(m.plank_width, 1) /\ PositiveUpTo(m.plank_length, 3)

\* C14: the construction of a Wallpaper, a Tile or a Laminate fails with a
\* validation error when the price or a geometric argument is <= 0 or above
\* its bound; the object of a construction that succeeds is of the variant
\* asked for and has every field in its domain and a unit_coverage > 0.
C14_ConstructionValidates ==
    last.op \in {"Wallpaper", "Tile", "Laminate"} =>
        /\ ~ArgsInDomain(last.op, last.list) =>
              last.raised /\ last.error = "validation"
        /\ ~last.raised =>
              materials[1].kind = last.op /\ FieldsInDomain(materials[1])

\* a Laminate whose only bad argument is a plank_width of 2.5, above the
\* bound 1, was refused
C14_Witness ==
    /\ last.op = "Laminate" /\ last.raised
    /\ last.list = <<FOfInt(100), FOfInt(10), FOfRat(5, 2), FOfRat(5, 2)>>

\* C15: after construction and after every successful or rejected
\* assignment, tiles_per_box of a Tile is an integer in 1..1000 and
\* planks_per_pack of a Laminate an integer in 1..100: an assigned value
\* that yields no such integer is rejected.
C15_CountsStayInDomain ==
    /\ materials[1].kind = "Tile" => materials[1].tiles_per_box \in 1..1000
    /\ materials[1].kind = "Laminate" => materials[1].planks_per_pack \in 1..100

(***************************************************************************)
(* Properties of the configuration setters (SpecConfig).                   *)
(***************************************************************************)
\* C16: the reserve_percent setter accepts every value in [0, 100], 0 and
\* 100 included, and stores it; it rejects every other value with a
\* validation error and leaves reserve_percent as it was.
C16_ReserveSetterValidates ==
    [][last'.op = "reserve_percent" =>
          IF FLe(F0, last'.value) /\ FLe(last'.value, F100)
          THEN ~last'.raised /\ reserve_percent' = last'.value
          ELSE /\ last'.raised /\ last'.error = "validation"
               /\ reserve_percent' = reserve_percent]_vars

\* the value 101 was rejected and the reserve is still 10
C16_Witness ==
    /\ last.op = "reserve_percent" /\ last.raised
    /\ last.value = FOfInt(101)
    /\ reserve_percent = FOfInt(10)

\* C17: the currency setter accepts only a non-empty text: the assignment
\* of an empty string or of a value that is no text fails with a validation
\* error and leaves the currency as it was.
C17_CurrencyIsNonEmptyText ==
    [][last'.op = "currency" =>
          IF last'.value.type = "str" /\ last'.value.value # ""
          THEN ~last'.raised /\ currency' = last'.value
          ELSE /\ last'.raised /\ last'.error = "validation"
               /\ currency' = currency]_vars

(***************************************************************************)
(* Properties of the wall area (SpecWall).                                 *)
(***************************************************************************)
\* door_area + window_area >= perimeter * height, for arguments >= 0, of the
\* numbers the four floats denote, in exact arithmetic
OpeningsCoverWall(perimeter, height, door_area, window_area) ==
    BigCmp(BigMul(BigAdd(BigMul(FNum(door_area), FDen(window_area)),
                         BigMul(FNum(window_area), FDen(door_area))),
                  BigMul(FDen(perimeter), FDen(height))),
           BigMul(BigMul(FNum(perimeter), FNum(height)),
                  BigMul(FDen(door_area), FDen(window_area)))) >= 0

\* calculate_wall_area must fail for these arguments
WallAreaMustFail(perimeter, height, door_area, window_area) ==
    \/ FLe(perimeter, F0) \/ FLe(height, F0)
    \/ FLt(door_area, F0) \/ FLt(window_area, F0)
    \/ OpeningsCoverWall(perimeter, height, door_area, window_area)

\* C18: calculate_wall_area fails when the perimeter or the height is <= 0,
\* when an opening is negative, and whenever door_area + window_area >=
\* perimeter * height; in every other case it returns perimeter * height -
\* door_area - window_area, which is > 0.
C18_WallAreaIsNetOfOpenings ==
    last.op = "calculate_wall_area" =>
        IF WallAreaMustFail(last.list[1], last.list[2], last.list[3], last.list[4])
        THEN last.raised
        ELSE /\ ~last.raised
             /\ FLt(F0, last.value)
             /\ last.value = FSub(FSub(FMul(last.list[1], last.list[2]), last.list[3]),
                                  last.list[4])

(***************************************************************************)
(* Properties of the room calculator (SpecRoom).                           *)
(***************************************************************************)
\* length * width of the arguments of calculate_materials_for_room
FloorArea(args) == FMul(args[1], args[2])

\* 2 * (length + width) * height - door_area - window_area of the arguments
WallArea(args) ==
    FSub(FSub(FMul(FMul(FOfInt(2), FAdd(args[1], args[2])), args[3]), args[4]),
         args[5])

\* the last call passed the area to calculate, once, and its outcome is the
\* outcome of calculate for the material and that area
Delegated(area) ==
    /\ last.calls = 1
    /\ last.area = area
    /\ last.raised <=> ~ValidCall(last.material, area)
    /\ ~last.raised => last.ret = <<ResultOf(last.material, area)>>

\* C19: calculate_materials_for_room passes length * width to calculate for
\* the surface 'floor' and 2 * (length + width) * height - door_area -
\* window_area for the surface 'wall', and returns what calculate returns;
\* for 'wall' without a height and for any other surface it fails and does
\* not call calculate.
C19_RoomDelegatesToCalculate ==
    last.op = "calculate_materials_for_room" =>
        IF last.list[6] = "floor"
        THEN (FLt(F0, last.list[1]) /\ FLt(F0, last.list[2]))
                => Delegated(FloorArea(last.list))
        ELSE IF last.list[6] = "wall"
        THEN IF last.list[3] = NoHeight
             THEN last.raised /\ last.calls = 0
             ELSE FLt(F0, WallArea(last.list)) => Delegated(WallArea(last.list))
        ELSE last.raised /\ last.calls = 0

\* the walls of a room of 4 by 3, 2.5 high, less a door of 2 and a window of
\* 1.5: calculate was called for 31.5 and returned a result
C19_Witness ==
    /\ last.op = "calculate_materials_for_room" /\ ~last.raised
    /\ last.list[6] = "wall"
    /\ last.area = FOfRat(63, 2)
    /\ last.ret[1].area = FOfRat(63, 2)

\* C20: the reserve_percent of a RoomCalculator is the one of its calculator:
\* a read shows the calculator's value, an assignment of a value in [0, 100]
\* changes it, an assignment of another value fails and leaves it, and every
\* result of calculate_materials_for_room is computed with and records the
\* value the calculator holds at the call.
C20_RoomReservePassesThrough ==
    /\ [][(last'.op = "reserve_percent" /\ last'.raised) =>
                reserve_percent' = reserve_percent]_reserve_percent
    /\ [](/\ RoomCalculator_reserve_percent = reserve_percent
          /\ last.op = "reserve_percent" =>
                IF FLe(F0, last.value) /\ FLe(last.value, F100)
                THEN /\ ~last.raised
                     /\ RoomCalculator_reserve_percent = last.value
                ELSE last.raised
          /\ (last.op = "calculate_materials_for_room" /\ ~last.raised) =>
                /\ last.ret[1].reserve_percent = RoomCalculator_reserve_percent
                /\ last.ret[1] = ResultOf(last.material, last.area))

\* after an assignment of 50, a room calculation recorded the reserve 50
C20_Witness ==
    /\ last.op = "calculate_materials_for_room" /\ ~last.raised
    /\ reserve_percent = FOfInt(50)
    /\ last.ret[1].reserve_percent = FOfInt(50)

(***************************************************************************)
(* Properties of SpecFrame.                                                *)
(***************************************************************************)
\* the fields of a result that calculate computed
ResultFields(r) == <<r.area, r.units_needed, r.total_cost, r.reserve_percent>>

\* C21: a result in the history keeps its area, units_needed, total_cost and
\* reserve_percent through every later operation of the calculator that
\* leaves it in the history: a setter, a calculate, a compare_materials.
C21_ResultsStayAsProduced ==
    [][\A i \in DOMAIN calculations_history :
          i \in DOMAIN calculations_history' =>
              ResultFields(calculations_history'[i]) =
                  ResultFields(calculations_history[i])]_vars

\* after a result for reserve 10 and precision 2, the reserve and the
\* precision were changed and a second result was computed
C21_Witness ==
    /\ last.op = "calculate" /\ ~last.raised
    /\ reserve_percent = FOfInt(50) /\ precision = 0
    /\ Len(calculations_history) = 2
    /\ calculations_history[1].reserve_percent = FOfInt(10)
    /\ calculations_history[2].reserve_percent = FOfInt(50)
    /\ calculations_history[1].total_cost # calculations_history[2].total_cost

\* C23: clear_history leaves an empty history, so that history_count and
\* total_cost_sum are 0; it calls no save_calculation, and the rows of the
\* store and the configuration of the calculator stay as they were.
C23_ClearHistoryIsLocal ==
    [][last'.op = "clear_history" =>
           /\ calculations_history' = <<>>
           /\ history_count' = 0
           /\ SumCosts(calculations_history') = F0
           /\ last'.saves = <<>>
           /\ db_rows' = db_rows
           /\ config' = config]_vars

\* a clear_history on a calculator whose store holds two rows
C23_Witness ==
    /\ last.op = "clear_history"
    /\ db_manager # None /\ db_rows = 2
    /\ history_count = 0

\* C24: a successful calculate under auto_save on a calculator with a store
\* calls save_calculation once, for its own result and with that result
\* already the last entry of the history; whether the call fails or not, no
\* operation that is not itself a calculation calls save_calculation or adds
\* a row to the store later.
C24_SavedOnceNeverRetried ==
    [][IF last'.op = "calculate"
       THEN (~last'.raised /\ auto_save /\ db_manager # None) =>
               /\ Len(last'.saves) = 1
               /\ last'.saves[1].result = last'.ret[1]
               /\ last'.saves[1].history = Append(calculations_history, last'.ret[1])
               /\ calculations_history' = last'.saves[1].history
               /\ db_rows' = db_rows + (IF last'.saves[1].ok THEN 1 ELSE 0)
       ELSE last'.op # "compare_materials" =>
               /\ last'.saves = <<>>
               /\ db_rows' = db_rows]_vars

\* the store works again after a save_calculation failed: the history holds
\* two results, the store one row
C24_Witness ==
    /\ last.op = "db_recovers"
    /\ auto_save /\ db_manager # None /\ db_up
    /\ Len(calculations_history) = 2
    /\ db_rows = 1

(***************************************************************************)
(* Properties of SpecMonotone.                                             *)
(***************************************************************************)
\* C25: of two results for the same material, computed with the same
\* precision, the one for the area and the reserve that are not greater has
\* the units_needed and the total_cost that are not greater.
C25_UnitsAndCostAreMonotone ==
    \A i, j \in DOMAIN calculations_history :
        (/\ calculations_history[i].material = calculations_history[j].material
         /\ FLe(calculations_history[i].area, calculations_history[j].area)
         /\ FLe(calculations_history[i].reserve_percent,
                calculations_history[j].reserve_percent))
        => /\ calculations_history[i].units_needed <=
                  calculations_history[j].units_needed
           /\ FLe(calculations_history[i].total_cost,
                  calculations_history[j].total_cost)

\* two results for one material: the second, for the smaller area and the
\* smaller reserve, needs fewer units and costs less
C25_Witness ==
    /\ Len(calculations_history) = 2
    /\ calculations_history[1].material = calculations_history[2].material
    /\ FLt(calculations_history[2].area, calculations_history[1].area)
    /\ FLt(calculations_history[2].reserve_percent,
           calculations_history[1].reserve_percent)
    /\ calculations_history[2].units_needed < calculations_history[1].units_needed
    /\ FLt(calculations_history[2].total_cost, calculations_history[1].total_cost)

(***************************************************************************)
(* Properties of SpecCompare: the empty list and the order of the history. *)
(***************************************************************************)
\* C26: compare_materials with an empty list fails with an error, calls
\* calculate for nothing, and leaves the history and the store as they were.
C26_EmptyListIsRejected ==
    /\ [][(last'.op = "compare_materials" /\ last'.count = 0) =>
              /\ calculations_history' = calculations_history
              /\ db_rows' = db_rows]_<<calculations_history, db_rows>>
    /\ []((last.op = "compare_materials" /\ last.count = 0) =>
              /\ last.raised
              /\ last.error = "argument"
              /\ last.calls = 0
              /\ last.results = <<>>
              /\ last.ret = <<>>
              /\ last.saves = <<>>)

\* an empty list rejected by a calculator whose history holds two results
C26_Witness ==
    /\ last.op = "compare_materials" /\ last.count = 0 /\ last.raised
    /\ Len(calculations_history) = 2

\* the first n entries of a sequence
Prefix(seq, n) == SubSeq(seq, 1, n)

\* C27: under auto_save a successful compare_materials of n materials appends
\* n results to the history, the result of the i-th material of the list as
\* the i-th of them whatever the order of the returned list, and with a store
\* it calls save_calculation once per result in that order, each call made
\* when its result is the last entry of the history.
C27_CompareAppendsInInputOrder ==
    [][(last'.op = "compare_materials" /\ ~last'.raised /\ auto_save) =>
           /\ Len(last'.results) = last'.count
           /\ \A i \in DOMAIN last'.results : last'.results[i].material = last'.list[i]
           /\ calculations_history' = calculations_history \o last'.results
           /\ IF db_manager = None THEN last'.saves = <<>>
              ELSE /\ Len(last'.saves) = last'.count
                   /\ \A i \in DOMAIN last'.saves :
                         /\ last'.saves[i].result = last'.results[i]
                         /\ last'.saves[i].history =
                               calculations_history \o Prefix(last'.results, i)]_vars

\* the tile and the wallpaper compared by a calculator with a store: the
\* costlier tile is first in the history and second in the returned list
C27_Witness ==
    /\ last.op = "compare_materials" /\ ~last.raised /\ auto_save
    /\ db_manager # None
    /\ Len(calculations_history) = 2
    /\ calculations_history[1].material = 2 /\ calculations_history[2].material = 1
    /\ last.ret[1].material = 1 /\ last.ret[2].material = 2
    /\ Len(last.saves) = 2
    /\ last.saves[1].result.material = 2 /\ last.saves[2].result.material = 1

(***************************************************************************)
(* Properties of SpecSnapshot.                                             *)
(***************************************************************************)
\* C22: get_history returns the results of the history in a list of the
\* caller's own: an append to, a removal from or a reordering of that list
\* leaves the history, history_count and total_cost_sum of the calculator as
\* they were, and a later calculate or clear_history leaves the list.
C22_HistorySnapshotIsACopy ==
    [][IF last'.op = "get_history"
       THEN /\ snapshot_list' = calculations_history
            /\ calculations_history' = calculations_history
       ELSE IF last'.op \in {"list.append", "list.pop", "list.reverse"}
       THEN /\ calculations_history' = calculations_history
            /\ history_count' = history_count
            /\ SumCosts(calculations_history') = total_cost_sum
       ELSE snapshot.taken => snapshot_list' = snapshot_list]_vars

\* the caller has emptied the list it got while the history holds two
\* different results
C22_Witness ==
    /\ last.op = "list.pop"
    /\ snapshot.taken /\ snapshot_list = <<>>
    /\ history_count = 2
    /\ calculations_history[1] # calculations_history[2]

C29_ZeroOpeningIsAccepted ==
    [][(console.prompt \in {"door_area", "window_area"} /\ console'.typed = <<"0">>) =>
           /\ ~(last'.op = "input" /\ last'.error = "validation")
           /\ console.prompt = "door_area" =>
                 /\ console'.prompt = "window_area"
                 /\ console'.door_area = F0
           /\ console.prompt = "window_area" =>
                 /\ last'.op = "calculate_materials_for_room"
                 /\ last'.list[5] = F0]_vars

(***************************************************************************)
(* Properties of SpecExporter.                                             *)
(***************************************************************************)
\* C30: whenever an exporter has a filename and a list of allowed
\* extensions that is not empty, the extension of the filename is in the
\* list; and an assignment to filename or to allowed_extensions that raises
\* leaves filename and allowed_extensions as they were.
C30_FilenameExtensionIsAllowed ==
    /\ [](exporter # Absent =>
             (given(exporter.filename) /\ exporter.allowed_extensions # <<>> =>
                 allowed(exporter.allowed_extensions, extension_of(exporter.filename.text))))
    /\ [][(last'.op \in {"filename", "allowed_extensions"} /\ last'.raised) =>
             exporter' = exporter]_vars

====
